---------------------------- MODULE Spec2Model ----------------------------
(***************************************************************************)
(* A model of xs-cbt-backup: the changed-block bitmap wrapper              *)
(* (cbt_bitmap.py) and the backup orchestration (backup.py).               *)
(*                                                                         *)
(* Optional values (Python's None / a value) are sequences of length 0 / 1 *)
(* so that every variable keeps one comparable shape.                      *)
(***************************************************************************)
EXTENDS Integers, Sequences, FiniteSets, TLC

None == <<>>
Some(x) == <<x>>
IsNone(o) == Len(o) = 0
IsSome(o) == Len(o) = 1
Get(o) == o[1]

RECURSIVE Pow2(_)
Pow2(n) == IF n = 0 THEN 1 ELSE 2 * Pow2(n - 1)

RECURSIVE GCD(_, _)
GCD(a, b) == IF b = 0 THEN a ELSE GCD(b, a % b)

Min2(a, b) == IF a <= b THEN a ELSE b
Max2(a, b) == IF a >= b THEN a ELSE b

(***************************************************************************)
(* Bounds.                                                                 *)
(***************************************************************************)
\* blocks of a disk whose changed-block bitmap is wrapped
MaxBlocks == 8
\* snapshots of one disk that the hypervisor holds when the resolver runs
MaxSnapshots == 3
\* distinct snapshot creation times (seconds of the server's clock)
MaxTime == 3
\* devices (VBDs) of the VM
MaxDisks == 2
\* invocations of backup(), one after the other
MaxRuns == 2
\* seconds the clock advances over all the runs
MaxClock == 1
\* blocks of the disk whose transfers are compared
MaxDiskBlocks == 3
\* PBDs of the storage repository a restore goes to
MaxPbds == 2

(***************************************************************************)
(* cbt_bitmap.py                                                           *)
(***************************************************************************)
BLOCK_SIZE == 64 * 1024

\* The bitmap of a disk of n blocks in which the blocks of set S are marked:
\* (n + 7) // 8 bytes, block b at bit 7 - b % 8 of byte b // 8, the bits past
\* the last block clear.
BitmapOf(n, S) ==
    [j \in 1..((n + 7) \div 8) |->
        (IF (8 * (j - 1)) \in S THEN 128 ELSE 0)
        + (IF (8 * (j - 1) + 1) \in S THEN 64 ELSE 0)
        + (IF (8 * (j - 1) + 2) \in S THEN 32 ELSE 0)
        + (IF (8 * (j - 1) + 3) \in S THEN 16 ELSE 0)
        + (IF (8 * (j - 1) + 4) \in S THEN 8 ELSE 0)
        + (IF (8 * (j - 1) + 5) \in S THEN 4 ELSE 0)
        + (IF (8 * (j - 1) + 6) \in S THEN 2 ELSE 0)
        + (IF (8 * (j - 1) + 7) \in S THEN 1 ELSE 0)]

\* the bitmaps of the disks of up to MaxBlocks blocks
AllBitmaps ==
    UNION {{BitmapOf(n, S) : S \in SUBSET (0..(n - 1))} : n \in 0..MaxBlocks}

\* The base64 text is a sequence of alphabet indices 0..63; B64Pad is '='.
B64Pad == 64

\* The hypervisor's encoding of the bitmap that VDI.list_changed_blocks
\* returns: three bytes to four characters, the last group padded.
RECURSIVE B64Encode(_)
B64Encode(bytes) ==
    IF Len(bytes) = 0 THEN <<>>
    ELSE IF Len(bytes) = 1 THEN
        << bytes[1] \div 4, (bytes[1] % 4) * 16, B64Pad, B64Pad >>
    ELSE IF Len(bytes) = 2 THEN
        << bytes[1] \div 4,
           (bytes[1] % 4) * 16 + bytes[2] \div 16,
           (bytes[2] % 16) * 4,
           B64Pad >>
    ELSE
        << bytes[1] \div 4,
           (bytes[1] % 4) * 16 + bytes[2] \div 16,
           (bytes[2] % 16) * 4 + bytes[3] \div 64,
           bytes[3] % 64 >>
        \o B64Encode(SubSeq(bytes, 4, Len(bytes)))

\* base64.b64decode on correctly padded text: four characters to three
\* bytes, a padded last group to one or two.
RECURSIVE B64Decode(_)
B64Decode(text) ==
    IF Len(text) = 0 THEN <<>>
    ELSE
        LET a == text[1]
            b == text[2]
            c == text[3]
            d == text[4]
            b1 == (a * 4 + b \div 16) % 256
            b2 == ((b % 16) * 16 + c \div 4) % 256
            b3 == ((c % 4) * 64 + d) % 256
            group == IF c = B64Pad THEN << b1 >>
                     ELSE IF d = B64Pad THEN << b1, b2 >>
                     ELSE << b1, b2, b3 >>
        IN group \o B64Decode(SubSeq(text, 5, Len(text)))

\* The bits of each byte taken from the least significant one.
BitArrayLsbFirst(bytes) ==
    [k \in 1..(8 * Len(bytes)) |->
        (bytes[((k - 1) \div 8) + 1] \div Pow2((k - 1) % 8)) % 2 = 1]

\* BitArray(bytes): bit i (from 0) is bit 7 - i % 8 of byte i // 8.
BitArray(bytes) ==
    [k \in 1..(8 * Len(bytes)) |->
        (bytes[((k - 1) \div 8) + 1] \div Pow2(7 - ((k - 1) % 8))) % 2 = 1]

\* Variants of the scan with one statement of the loop changed.
RECURSIVE ScanBitsKeepsStart(_, _, _, _, _)
ScanBitsKeepsStart(bits, i, start, length, out) ==
    IF i >= Len(bits) THEN
        IF IsSome(start)
        THEN Append(out, << Get(start) * BLOCK_SIZE, length * BLOCK_SIZE >>)
        ELSE out
    ELSE IF bits[i + 1] THEN
        IF IsNone(start)
        THEN ScanBitsKeepsStart(bits, i + 1, Some(i), 1, out)
        ELSE ScanBitsKeepsStart(bits, i + 1, start, length + 1, out)
    ELSE
        IF IsSome(start)
        THEN ScanBitsKeepsStart(bits, i + 1, start, length,
                      Append(out, << Get(start) * BLOCK_SIZE, length * BLOCK_SIZE >>))
        ELSE ScanBitsKeepsStart(bits, i + 1, start, length, out)

RECURSIVE ScanBitsRestartsOnSet(_, _, _, _, _)
ScanBitsRestartsOnSet(bits, i, start, length, out) ==
    IF i >= Len(bits) THEN
        IF IsSome(start)
        THEN Append(out, << Get(start) * BLOCK_SIZE, length * BLOCK_SIZE >>)
        ELSE out
    ELSE IF bits[i + 1] THEN
        IF IsNone(start)
        THEN ScanBitsRestartsOnSet(bits, i + 1, Some(i), 1, out)
        ELSE ScanBitsRestartsOnSet(bits, i + 1, Some(i), 1,
                      Append(out, << Get(start) * BLOCK_SIZE, length * BLOCK_SIZE >>))
    ELSE
        IF IsSome(start)
        THEN ScanBitsRestartsOnSet(bits, i + 1, None, length,
                      Append(out, << Get(start) * BLOCK_SIZE, length * BLOCK_SIZE >>))
        ELSE ScanBitsRestartsOnSet(bits, i + 1, start, length, out)

RECURSIVE ScanBitsDropsOpenRun(_, _, _, _, _)
ScanBitsDropsOpenRun(bits, i, start, length, out) ==
    IF i >= Len(bits) THEN out
    ELSE IF bits[i + 1] THEN
        IF IsNone(start)
        THEN ScanBitsDropsOpenRun(bits, i + 1, Some(i), 1, out)
        ELSE ScanBitsDropsOpenRun(bits, i + 1, start, length + 1, out)
    ELSE
        IF IsSome(start)
        THEN ScanBitsDropsOpenRun(bits, i + 1, None, length,
                      Append(out, << Get(start) * BLOCK_SIZE, length * BLOCK_SIZE >>))
        ELSE ScanBitsDropsOpenRun(bits, i + 1, start, length, out)

\* The loop of _bitmap_to_extents from bit i on; start is None or the first
\* block of the open run, length its length, out the extents yielded so far.
RECURSIVE ScanBits(_, _, _, _, _)
ScanBits(bits, i, start, length, out) ==
    IF i >= Len(bits) THEN
        IF IsSome(start)
        THEN Append(out, << Get(start) * BLOCK_SIZE, length * BLOCK_SIZE >>)
        ELSE out
    ELSE IF bits[i + 1] THEN
        IF IsNone(start)
        THEN ScanBits(bits, i + 1, Some(i), 1, out)
        ELSE ScanBits(bits, i + 1, start, length + 1, out)
    ELSE
        IF IsSome(start)
        THEN ScanBits(bits, i + 1, None,  length,
                      Append(out, << Get(start) * BLOCK_SIZE, length * BLOCK_SIZE >>))
        ELSE ScanBits(bits, i + 1, start, length, out)

\* _bitmap_to_extents: the sequence of (offset, length) pairs yielded.
BitmapToExtents(cbt_bitmap) == ScanBits(BitArray(cbt_bitmap), 0, None, 0, <<>>)

RECURSIVE CountSet(_, _)
CountSet(bits, i) ==
    IF i >= Len(bits) THEN 0
    ELSE (IF bits[i + 1] THEN 1 ELSE 0) + CountSet(bits, i + 1)

\* _get_changed_blocks_size
GetChangedBlocksSize(cbt_bitmap) == CountSet(BitArray(cbt_bitmap), 0) * BLOCK_SIZE

\* _get_disk_size
GetDiskSize(cbt_bitmap) == Len(BitArray(cbt_bitmap)) * BLOCK_SIZE

\* Floor division in place of true division.
FloorDiv(a, b) == [num |-> a \div b, den |-> 1]

\* Python's true division a / b of two integers, kept as the exact quotient
\* in lowest terms (the rounding of the float result is not modelled).
TrueDiv(a, b) == LET g == GCD(a, b) IN [num |-> a \div g, den |-> b \div g]

\* The for loop of _get_extent_stats from extent k on.
RECURSIVE StatsLoop(_, _, _, _, _, _)
StatsLoop(extents, k, n, changed_blocks_size, max_length, min_length) ==
    IF k > Len(extents) THEN
        [average_extent_length |->
            IF n = 0 THEN None ELSE Some(TrueDiv(changed_blocks_size, n)),
         max_extent_length |-> max_length,
         min_extent_length |-> min_length,
         changed_blocks_size |-> changed_blocks_size,
         extents |-> n]
    ELSE
        LET length == extents[k][2] IN
        StatsLoop(extents, k + 1, n + 1, changed_blocks_size + length,
                  IF IsNone(max_length) THEN Some(length)
                  ELSE Some(Max2(Get(max_length), length)),
                  IF IsNone(min_length) THEN Some(length)
                  ELSE Some(Min2(Get(min_length), length)))

\* The accumulators started at 0 in place of None.
GetExtentStatsFromZero(extents) == StatsLoop(extents, 1, 0, 0, Some(0), Some(0))

\* _get_extent_stats
GetExtentStats(extents) == StatsLoop(extents, 1, 0, 0, None, None)

\* CbtBitmap.__init__
CbtBitmapInit(cbt_bitmap_b64) == B64Decode(cbt_bitmap_b64)

\* CbtBitmap.get_extents
GetExtents(self_bitmap) == BitmapToExtents(self_bitmap)

\* CbtBitmap.get_statistics: the stats of the extents, plus "size".
GetStatistics(self_bitmap) ==
    LET stats == GetExtentStats(GetExtents(self_bitmap)) IN
    [average_extent_length |-> stats.average_extent_length,
     max_extent_length |-> stats.max_extent_length,
     min_extent_length |-> stats.min_extent_length,
     changed_blocks_size |-> stats.changed_blocks_size,
     extents |-> stats.extents,
     size |-> GetDiskSize(self_bitmap)]

(***************************************************************************)
(* State.                                                                  *)
(***************************************************************************)
VARIABLES
    \* a CbtBitmap object and the calls made on it
    cbt_bitmap_b64,   \* the constructor's argument
    bitmap,           \* self.bitmap
    extents,          \* None, or Some(list(get_extents()))
    statistics,       \* None, or Some(get_statistics())
    changed_size,     \* None, or Some(_get_changed_blocks_size(self.bitmap))
    \* the hypervisor
    vdis,             \* the VDI records, a VDI's reference being its index
    vm_vbds,          \* the VM's devices: [vdi, empty]
    vm_snapshots,     \* the VM snapshot records: [vbds, exists]
    task_status,      \* None, or Some(status) of the checksum task
    \* the local machine
    tree,             \* self._vm_dir: timestamp directory -> file names
    file_content,     \* path -> what the file holds
    now,              \* the clock, in seconds
    \* the position and the locals of the running call
    pc,
    run,              \* invocations of backup() started so far
    backup_dir,       \* the directory of this run
    vm_snapshot,      \* the VM snapshot of this run
    snap_vdis,        \* the list vdis of _vm_backup
    idx,              \* position of the running for loop
    vdi,              \* the snapshot VDI at hand
    cbt_enabled,      \* the local of _vdi_backup
    output_file,      \* the local of _vdi_backup
    snapshots,        \* the list VDI.get_snapshots returned
    latest_backup,    \* None, or Some(<<snapshot, local file>>)
    calls,            \* the calls this run made that change the server or a file
    error,            \* the exception that ended the call, "none" until then
    \* one disk, two of its snapshots and the transfers of the newer one
    disk_prev,        \* the blocks of the earlier snapshot on the server
    disk_cur,         \* the blocks of the snapshot being backed up
    prior_backup,     \* the blocks of the local backup of the earlier snapshot
    full_file,        \* None, or Some(the file a full transfer wrote)
    incr_file,        \* None, or Some(the file an incremental transfer wrote)
    \* restore(): the storage's PBDs and the locals of the call
    pbds,             \* SR.get_PBDs(sr): each PBD's currently_attached
    host,             \* None, or Some(what get_connected_host returned)
    dir_listing,      \* the names backup_dir.iterdir() yields, in its order
    vdi_map,          \* original uuid -> uuid of the restored VDI
    \* two invocations of backup() at once
    procs             \* process -> its position and locals

bvars == << cbt_bitmap_b64, bitmap, extents, statistics, changed_size >>
hvars == << vdis, vm_vbds, vm_snapshots, task_status >>
lvars == << tree, file_content, now >>
pvars == << pc, run, backup_dir, vm_snapshot, snap_vdis, idx, vdi, cbt_enabled,
            output_file, snapshots, latest_backup, calls, error >>

tvars == << disk_prev, disk_cur, prior_backup, full_file, incr_file >>

rvars == << pbds, host, dir_listing, vdi_map >>

cvars == << procs >>

vars == << bvars, hvars, lvars, pvars, tvars, rvars, cvars >>

\* The values of the variables a specification does not use.
BitmapIdle ==
    /\ cbt_bitmap_b64 = << >>
    /\ bitmap = << >>
    /\ extents = None
    /\ statistics = None
    /\ changed_size = None

TransferIdle ==
    /\ disk_prev = << >>
    /\ disk_cur = << >>
    /\ prior_backup = << >>
    /\ full_file = None
    /\ incr_file = None

HypervisorIdle ==
    /\ vdis = << >>
    /\ vm_vbds = << >>
    /\ vm_snapshots = << >>
    /\ task_status = None

LocalIdle ==
    /\ tree = << >>
    /\ file_content = << >>
    /\ now = 0

RestoreIdle ==
    /\ pbds = << >>
    /\ host = None
    /\ dir_listing = << >>
    /\ vdi_map = << >>

ConcurrentIdle == procs = << >>

\* the locals of a call that has not started
LocalsUnset ==
    /\ backup_dir = 0
    /\ vm_snapshot = 0
    /\ snap_vdis = << >>
    /\ idx = 0
    /\ vdi = 0
    /\ cbt_enabled = FALSE
    /\ output_file = None
    /\ snapshots = << >>
    /\ latest_backup = None
    /\ calls = << >>
    /\ error = "none"

ProcessIdle ==
    /\ pc = "idle"
    /\ run = 0
    /\ LocalsUnset

(***************************************************************************)
(* The CbtBitmap object: construction, then its methods in any order.      *)
(***************************************************************************)
BitmapInit ==
    /\ cbt_bitmap_b64 \in {B64Encode(b) : b \in AllBitmaps}
    /\ bitmap = CbtBitmapInit(cbt_bitmap_b64)
    /\ extents = None
    /\ statistics = None
    /\ changed_size = None
    /\ HypervisorIdle
    /\ LocalIdle
    /\ ProcessIdle
    /\ RestoreIdle
    /\ ConcurrentIdle
    /\ TransferIdle

CallGetExtents ==
    /\ IsNone(extents)
    /\ extents' = Some(GetExtents(bitmap))
    /\ UNCHANGED << cbt_bitmap_b64, bitmap, statistics, changed_size >>
    /\ UNCHANGED << rvars, cvars, tvars, hvars, lvars, pvars >>

CallGetStatistics ==
    /\ IsNone(statistics)
    /\ statistics' = Some(GetStatistics(bitmap))
    /\ UNCHANGED << cbt_bitmap_b64, bitmap, extents, changed_size >>
    /\ UNCHANGED << rvars, cvars, tvars, hvars, lvars, pvars >>

CallGetChangedBlocksSize ==
    /\ IsNone(changed_size)
    /\ changed_size' = Some(GetChangedBlocksSize(bitmap))
    /\ UNCHANGED << cbt_bitmap_b64, bitmap, extents, statistics >>
    /\ UNCHANGED << rvars, cvars, tvars, hvars, lvars, pvars >>

BitmapNext ==
    \/ CallGetExtents
    \/ CallGetStatistics
    \/ CallGetChangedBlocksSize

BitmapSpec == BitmapInit /\ [][BitmapNext]_vars

(***************************************************************************)
(* The hypervisor's VDIs, as the XenAPI calls of backup.py see them.       *)
(***************************************************************************)
NullRef == 0

\* VDI.get_uuid of the VDI created with reference ref
UuidOf(ref) == "uuid-" \o ToString(ref)

\* A VDI record: status is "live", "metadata" (after VDI.data_destroy: the
\* data is gone, the change tracking metadata stays) or "destroyed".
VdiRecord(ref, is_snap, of, time, cbt) ==
    [uuid |-> UuidOf(ref),
     is_a_snapshot |-> is_snap,
     snapshot_of |-> of,
     snapshot_time |-> time,
     cbt_enabled |-> cbt,
     status |-> "live"]

\* VDI.get_snapshots(v), as a set: every snapshot of v the server still has.
VdiGetSnapshots(v) ==
    {s \in DOMAIN vdis :
        /\ vdis[s].status # "destroyed"
        /\ vdis[s].is_a_snapshot
        /\ vdis[s].snapshot_of = v}

\* The orders in which the server may list the references of set S.
Enumerations(S) ==
    {e \in [1..Cardinality(S) -> S] :
        \A i, j \in 1..Cardinality(S) : i # j => e[i] # e[j]}

(***************************************************************************)
(* backup.py: the chain resolver.                                          *)
(***************************************************************************)
\* BackupConfig._snapshot_timestamp
SnapshotTimestamp(snapshot) == vdis[snapshot].snapshot_time

\* One step of sorted(..., reverse=True): the sort is stable, so s goes
\* after every element whose key is not smaller.
InsertNewestFirst(sorted, s) ==
    LET k == Cardinality({i \in 1..Len(sorted) :
                SnapshotTimestamp(sorted[i]) >= SnapshotTimestamp(s)})
    IN SubSeq(sorted, 1, k) \o << s >> \o SubSeq(sorted, k + 1, Len(sorted))

InsertOldestFirst(sorted, s) ==
    LET k == Cardinality({i \in 1..Len(sorted) :
                SnapshotTimestamp(sorted[i]) <= SnapshotTimestamp(s)})
    IN SubSeq(sorted, 1, k) \o << s >> \o SubSeq(sorted, k + 1, Len(sorted))

\* sorted(snapshots, key=self._snapshot_timestamp) without reverse=True
RECURSIVE SortedOldestFirst(_)
SortedOldestFirst(enum) ==
    IF Len(enum) = 0 THEN << >>
    ELSE InsertOldestFirst(SortedOldestFirst(SubSeq(enum, 1, Len(enum) - 1)),
                           enum[Len(enum)])

\* sorted(snapshots, key=self._snapshot_timestamp)[::-1]: newest first, but
\* equal timestamps in the reverse of the order they were listed in.
SortedThenReversed(enum) ==
    LET asc == SortedOldestFirst(enum)
    IN [i \in 1..Len(asc) |-> asc[Len(asc) + 1 - i]]

\* sorted(snapshots, key=self._snapshot_timestamp, reverse=True)
RECURSIVE SortedNewestFirst(_)
SortedNewestFirst(enum) ==
    IF Len(enum) = 0 THEN << >>
    ELSE InsertNewestFirst(SortedNewestFirst(SubSeq(enum, 1, Len(enum) - 1)),
                           enum[Len(enum)])

\* BackupConfig._get_all_vdi_backups: every path <<directory, name>> two
\* levels below self._vm_dir.
GetAllVdiBackups ==
    UNION {{<< d, f >> : f \in tree[d]} : d \in DOMAIN tree}

\* a lookup that takes the first file of the tree, whatever its name
LocalBackupsWhateverTheName(snapshot) == GetAllVdiBackups

\* a lookup that passes over a file whose transfer has not completed
LocalBackupsCompletedOnly(snapshot) ==
    {b \in GetAllVdiBackups :
        b[2] = vdis[snapshot].uuid /\ file_content[b] # "partial"}

\* BackupConfig._get_local_backup_of_snapshot: the files named by the
\* snapshot's uuid. The code returns the first that iterdir yields, in an
\* order the file system chooses, or None.
LocalBackupsOfSnapshot(snapshot) ==
    {b \in GetAllVdiBackups : b[2] = vdis[snapshot].uuid}

\* What BackupConfig._get_latest_backup_of_vdi can return when the server
\* lists the snapshots in the order enum.
LatestBackupResults(enum) ==
    LET newest_to_oldest == SortedNewestFirst(enum)
        with_backup == {i \in 1..Len(newest_to_oldest) :
                           LocalBackupsOfSnapshot(newest_to_oldest[i]) # {}}
    IN IF with_backup = {} THEN {None}
       ELSE LET first == CHOOSE i \in with_backup : \A j \in with_backup : i <= j
            IN {Some(<< newest_to_oldest[first], b >>) :
                    b \in LocalBackupsOfSnapshot(newest_to_oldest[first])}

\* The lists VDI.get_snapshots may return for the parent of snapshot.
VdiGetSnapshotsOfParent(snapshot) ==
    Enumerations(VdiGetSnapshots(vdis[snapshot].snapshot_of))

\* BackupConfig._get_latest_backup_of_vdi(snapshot): every value it can
\* return, over the orders of the server's list and of the directory.
GetLatestBackupOfVdi(snapshot) ==
    UNION {LatestBackupResults(enum) : enum \in VdiGetSnapshotsOfParent(snapshot)}

(***************************************************************************)
(* The resolver on its own: any snapshots of one disk, any creation times, *)
(* local backup files for any of them. The disk at hand is the snapshot    *)
(* created last, as in _vdi_backup; its creation time is any, and the      *)
(* server lists the snapshots in any order.                                *)
(***************************************************************************)
ResolverInit ==
    /\ BitmapIdle
    /\ TransferIdle
    /\ RestoreIdle
    /\ ConcurrentIdle
    /\ \E n \in 1..MaxSnapshots :
       \E times \in [1..n -> 1..MaxTime] :
       \E have \in SUBSET (1..n) :
          /\ vdis = << VdiRecord(1, FALSE, NullRef, 0, TRUE) >>
                    \o [k \in 1..n |-> VdiRecord(k + 1, TRUE, 1, times[k], TRUE)]
          /\ tree = [d \in have |-> {"VM_metadata", UuidOf(d + 1)}]
          /\ file_content =
                [b \in UNION {{<< d, f >> : f \in {"VM_metadata", UuidOf(d + 1)}} :
                                 d \in have} |->
                    IF b[2] = "VM_metadata" THEN "metadata" ELSE "exact"]
          /\ vdi = n + 1
    /\ vm_vbds = << [vdi |-> 1, empty |-> FALSE] >>
    /\ vm_snapshots = << >>
    /\ task_status = None
    /\ now = 0
    /\ pc = "resolve"
    /\ run = 0
    /\ backup_dir = 0
    /\ vm_snapshot = 0
    /\ snap_vdis = << >>
    /\ idx = 0
    /\ cbt_enabled = TRUE
    /\ output_file = None
    /\ snapshots = << >>
    /\ latest_backup = None
    /\ calls = << >>
    /\ error = "none"

\* _get_latest_backup_of_vdi(vdi) up to its return statement, the list
\* the server returned still at hand.
ResolveLatestBackup ==
    /\ pc = "resolve"
    /\ \E enum \in VdiGetSnapshotsOfParent(vdi) :
        /\ snapshots' = enum
        /\ latest_backup' \in LatestBackupResults(enum)
    /\ pc' = "resolved"
    /\ UNCHANGED << rvars, cvars, tvars, bvars, hvars, lvars >>
    /\ UNCHANGED << run, error, backup_dir, vm_snapshot, snap_vdis, idx, vdi,
                    cbt_enabled, output_file, calls >>

\* the caller asks again
ResolveAgain ==
    /\ pc = "resolved"
    /\ pc' = "resolve"
    /\ snapshots' = << >>
    /\ latest_backup' = None
    /\ UNCHANGED << rvars, cvars, tvars, bvars, hvars, lvars >>
    /\ UNCHANGED << run, error, backup_dir, vm_snapshot, snap_vdis, idx, vdi,
                    cbt_enabled, output_file, calls >>

ResolverNext ==
    \/ ResolveLatestBackup
    \/ ResolveAgain

ResolverSpec == ResolverInit /\ [][ResolverNext]_vars

(***************************************************************************)
(* backup.py: BackupConfig.backup, one step per call that changes or reads *)
(* the server or the local tree.                                           *)
(***************************************************************************)
\* get_vdis_of_vm without the test of VBD.get_empty: the VDI of every
\* device, the null reference for an empty drive
GetVdisOfVmWithEmpty(vbds) == [i \in 1..Len(vbds) |-> vbds[i].vdi]

\* get_vdis_of_vm: the VDIs of the devices that are not empty, in the order
\* of the devices.
GetVdisOfVm(vbds) ==
    LET plugged == SelectSeq(vbds, LAMBDA b : ~b.empty)
    IN [i \in 1..Len(plugged) |-> plugged[i].vdi]

\* the function f with f[x] = v added or replaced
Put(f, x, v) == [y \in (DOMAIN f) \cup {x} |-> IF y = x THEN v ELSE f[y]]

\* _get_timestamp: the clock to the second ("%Y%m%dT%H%M%SZ")
GetTimestamp == now

Call(op, arg) == [op |-> op, arg |-> arg]

\* _vdi_backup has returned: its locals are gone
VdiBackupLocalsGone ==
    /\ vdi' = 0
    /\ cbt_enabled' = FALSE
    /\ output_file' = None
    /\ latest_backup' = None

\* a fresh process: nothing of an earlier run's locals is left
ResetLocals ==
    /\ backup_dir' = 0
    /\ vm_snapshot' = 0
    /\ snap_vdis' = << >>
    /\ VdiBackupLocalsGone
    /\ calls' = << >>

\* An exception propagates out of backup(): the process ends, with every
\* local of every frame, and the caller gets the exception.
Raise(exception) ==
    /\ pc' = "failed"
    /\ error' = exception
    /\ backup_dir' = 0
    /\ vm_snapshot' = 0
    /\ snap_vdis' = << >>
    /\ idx' = 0
    /\ VdiBackupLocalsGone

\* Cli.backup -> BackupConfig.backup is entered (lines 237-240)
BackupStart ==
    /\ pc \in {"idle", "done", "failed"}
    /\ run < MaxRuns
    /\ run' = run + 1
    /\ pc' = "enable_cbt"
    /\ idx' = 1
    /\ ResetLocals
    /\ error' = "none"
    /\ UNCHANGED << rvars, cvars, tvars, bvars, hvars, lvars, snapshots >>

\* enable_cbt: VDI.enable_cbt on the next non-empty VDI of the VM
EnableCbt ==
    /\ pc = "enable_cbt"
    /\ idx <= Len(GetVdisOfVm(vm_vbds))
    /\ LET v == GetVdisOfVm(vm_vbds)[idx] IN
        /\ vdis' = [vdis EXCEPT ![v].cbt_enabled = TRUE]
        /\ calls' = Append(calls, Call("VDI.enable_cbt", << v >>))
    /\ idx' = idx + 1
    /\ UNCHANGED << rvars, cvars, tvars, bvars, lvars, vm_vbds, vm_snapshots, task_status >>
    /\ UNCHANGED << pc, run, error, backup_dir, vm_snapshot, snap_vdis, vdi,
                    cbt_enabled, output_file, snapshots, latest_backup >>

\* Path.mkdir(exist_ok=True) of a directory that exists: nothing is raised
MkdirExistOk(parent, name) == FALSE

\* Path.mkdir() with its default exist_ok=False raises FileExistsError
\* when the directory exists (line 109)
MkdirRaises(parent, name) == name \in DOMAIN parent

\* _get_new_backup_dir: mkdir of the timestamp directory
GetNewBackupDir ==
    /\ pc = "enable_cbt"
    /\ idx > Len(GetVdisOfVm(vm_vbds))
    /\ IF MkdirRaises(tree, GetTimestamp)
       THEN /\ Raise("FileExistsError")
            /\ UNCHANGED tree
       ELSE /\ tree' = IF GetTimestamp \in DOMAIN tree THEN tree
                       ELSE Put(tree, GetTimestamp, {})
            /\ backup_dir' = GetTimestamp
            /\ pc' = "save_vm_metadata"
            /\ UNCHANGED << vm_snapshot, snap_vdis, idx, vdi, cbt_enabled,
                            output_file, latest_backup, error >>
    /\ UNCHANGED << rvars, cvars, tvars, bvars, hvars, file_content, now >>
    /\ UNCHANGED << run, snapshots, calls >>

\* _save_vm_metadata: the exported blob is written to VM_metadata
SaveVmMetadata ==
    /\ pc = "save_vm_metadata"
    /\ tree' = [tree EXCEPT ![backup_dir] = @ \cup {"VM_metadata"}]
    /\ file_content' = Put(file_content, << backup_dir, "VM_metadata" >>, "metadata")
    /\ pc' = "snapshot_vm"
    /\ UNCHANGED << rvars, cvars, tvars, bvars, hvars, now >>
    /\ UNCHANGED << run, error, backup_dir, vm_snapshot, snap_vdis, idx, vdi,
                    cbt_enabled, output_file, snapshots, latest_backup, calls >>

\* VM.snapshot on the server: every non-empty device's VDI is snapshotted
\* (the snapshot VDI takes over its cbt_enabled), an empty device stays empty.
ServerVmSnapshot(vbds) ==
    LET parents == GetVdisOfVm(vbds)
        rank(i) == Len(GetVdisOfVm(SubSeq(vbds, 1, i)))
    IN [new_vdis |->
            [k \in 1..Len(parents) |->
                VdiRecord(Len(vdis) + k, TRUE, parents[k], now,
                          vdis[parents[k]].cbt_enabled)],
        record |->
            [vbds |-> [i \in 1..Len(vbds) |->
                          IF vbds[i].empty
                          THEN [vdi |-> NullRef, empty |-> TRUE]
                          ELSE [vdi |-> Len(vdis) + rank(i), empty |-> FALSE]],
             exists |-> TRUE]]

\* _snapshot_vm
SnapshotVm ==
    /\ pc = "snapshot_vm"
    /\ LET snap == ServerVmSnapshot(vm_vbds) IN
        /\ vdis' = vdis \o snap.new_vdis
        /\ vm_snapshots' = Append(vm_snapshots, snap.record)
        /\ vm_snapshot' = Len(vm_snapshots) + 1
        /\ calls' = Append(calls, Call("VM.snapshot", << Len(vm_snapshots) + 1 >>))
    /\ pc' = "list_vdis"
    /\ UNCHANGED << rvars, cvars, tvars, bvars, lvars, vm_vbds, task_status >>
    /\ UNCHANGED << run, error, backup_dir, snap_vdis, idx, vdi, cbt_enabled,
                    output_file, snapshots, latest_backup >>

\* _vm_backup, line 186: vdis = list(get_vdis_of_vm(vm_snapshot))
VmBackupListVdis ==
    /\ pc = "list_vdis"
    /\ snap_vdis' = GetVdisOfVm(vm_snapshots[vm_snapshot].vbds)
    /\ idx' = 1
    /\ pc' = "vm_backup"
    /\ UNCHANGED << rvars, cvars, tvars, bvars, hvars, lvars >>
    /\ UNCHANGED << run, error, backup_dir, vm_snapshot, vdi, cbt_enabled,
                    output_file, snapshots, latest_backup, calls >>

\* _vdi_backup, line 169: the resolver is asked only with change tracking on
ConsultsResolverAlways(cbt) == TRUE

ConsultsResolver(cbt) == cbt

\* _vdi_backup, lines 163-170, for the next VDI of the list
VdiBackupBegin ==
    /\ pc = "vm_backup"
    /\ idx <= Len(snap_vdis)
    /\ vdi' = snap_vdis[idx]
    /\ output_file' = Some(<< backup_dir, vdis[snap_vdis[idx]].uuid >>)
    /\ cbt_enabled' = vdis[snap_vdis[idx]].cbt_enabled
    /\ IF ConsultsResolver(vdis[snap_vdis[idx]].cbt_enabled)
       THEN latest_backup' \in GetLatestBackupOfVdi(snap_vdis[idx])
       ELSE latest_backup' = None
    /\ pc' = "transfer"
    /\ UNCHANGED << rvars, cvars, tvars, bvars, hvars, lvars >>
    /\ UNCHANGED << run, error, backup_dir, vm_snapshot, snap_vdis, idx, snapshots, calls >>

\* What VdiDownloader.full_vdi_backup leaves in the output file: the whole
\* disk, streamed from the server.
FullVdiBackupContent == "exact"

\* What VdiDownloader.incremental_vdi_backup leaves: the changed extents
\* from the server, the rest from the prior local backup, so the file is
\* the snapshot's content when the prior backup was its own snapshot's.
IncrementalVdiBackupContent(base_content) ==
    IF base_content = "exact" THEN "exact" ELSE "wrong"

\* a transfer that removes its output file when it is cut
DiscardsPartialFile(content) ==
    IF content = "partial" THEN UNCHANGED << tree, file_content >>
    ELSE /\ tree' = [tree EXCEPT ![backup_dir] = @ \cup {Get(output_file)[2]}]
         /\ file_content' = Put(file_content, Get(output_file), content)

\* the output file is created holding content
WriteOutputFile(content) ==
    /\ tree' = [tree EXCEPT ![backup_dir] = @ \cup {Get(output_file)[2]}]
    /\ file_content' = Put(file_content, Get(output_file), content)

\* _vdi_backup, lines 171-182: a full transfer when latest_backup is None,
\* else the changed blocks are listed and an incremental transfer is made.
\* Either transfer may be cut by a transport error, which leaves a partial
\* file and propagates.
Transfer ==
    /\ pc = "transfer"
    /\ \E completes \in BOOLEAN :
        /\ IF IsNone(latest_backup)
           THEN /\ calls' = Append(calls, Call("full_vdi_backup", << vdi >>))
                /\ WriteOutputFile(IF completes THEN FullVdiBackupContent
                                   ELSE "partial")
           ELSE /\ calls' = calls \o
                      << Call("VDI.list_changed_blocks",
                              << Get(latest_backup)[1], vdi >>),
                         Call("incremental_vdi_backup", << vdi >>) >>
                /\ WriteOutputFile(
                      IF completes
                      THEN IncrementalVdiBackupContent(
                               file_content[Get(latest_backup)[2]])
                      ELSE "partial")
        /\ IF completes
           THEN /\ pc' = "compare_checksums"
                /\ UNCHANGED << backup_dir, vm_snapshot, snap_vdis, idx, vdi,
                                cbt_enabled, output_file, latest_backup, error >>
           ELSE Raise("TransportError")
    /\ UNCHANGED << rvars, cvars, tvars, bvars, hvars, now >>
    /\ UNCHANGED << run, snapshots >>

\* _compare_checksums, lines 146-150: the server-side checksum task is
\* started and the local file is checksummed
CompareChecksumsStart ==
    /\ pc = "compare_checksums"
    /\ task_status' = Some("pending")
    /\ calls' = Append(calls, Call("Async.VDI.checksum", << vdi >>))
    /\ pc' = "wait_for_task"
    /\ UNCHANGED << rvars, cvars, tvars, bvars, lvars, vdis, vm_vbds, vm_snapshots >>
    /\ UNCHANGED << run, error, backup_dir, vm_snapshot, snap_vdis, idx, vdi,
                    cbt_enabled, output_file, snapshots, latest_backup >>

\* the server finishes the checksum task
TaskFinishes ==
    /\ task_status = Some("pending")
    /\ task_status' = Some("success")
    /\ UNCHANGED << rvars, cvars, tvars, bvars, lvars, pvars, vdis, vm_vbds, vm_snapshots >>

\* a loop that asks for the status once and does not look at it
NeverPending(status) == FALSE

\* _wait_for_task_to_finish, line 81: the condition of the while loop
StillPending(status) == status = Some("pending")

\* _wait_for_task_to_finish: the task is pending, sleep and ask again
PollPending ==
    /\ pc = "wait_for_task"
    /\ StillPending(task_status)
    /\ UNCHANGED vars

\* _wait_for_task_result: the task is no longer pending, its result is read
TaskResult ==
    /\ pc = "wait_for_task"
    /\ ~StillPending(task_status)
    /\ pc' = "assert_checksums"
    /\ UNCHANGED << rvars, cvars, tvars, bvars, hvars, lvars >>
    /\ UNCHANGED << run, error, backup_dir, vm_snapshot, snap_vdis, idx, vdi,
                    cbt_enabled, output_file, snapshots, latest_backup, calls >>

\* The md5 of the local file equals the server's checksum of the VDI when
\* the file holds the VDI's content.
ChecksumsEqual(content) == content = "exact"

\* an assert statement the interpreter does not execute (python -O)
AssertStripped(condition) == TRUE

\* assert condition: goes on when the condition is true, raises
\* AssertionError when it is false
AssertPasses(condition) == condition

\* _compare_checksums, line 153: the assertion; _vdi_backup returns and the
\* loop of _vm_backup goes on, or AssertionError propagates.
AssertChecksums ==
    /\ pc = "assert_checksums"
    /\ IF AssertPasses(ChecksumsEqual(file_content[Get(output_file)]))
       THEN /\ idx' = idx + 1
            /\ pc' = "vm_backup"
            /\ VdiBackupLocalsGone
            /\ UNCHANGED << backup_dir, vm_snapshot, snap_vdis, error >>
       ELSE Raise("AssertionError")
    /\ UNCHANGED << rvars, cvars, tvars, bvars, hvars, lvars >>
    /\ UNCHANGED << run, snapshots, calls >>

\* _vm_backup, line 199: VM.destroy of the VM snapshot, after the loop
VmDestroy ==
    /\ pc = "vm_backup"
    /\ idx > Len(snap_vdis)
    /\ vm_snapshots' = [vm_snapshots EXCEPT ![vm_snapshot].exists = FALSE]
    /\ calls' = Append(calls, Call("VM.destroy", << vm_snapshot >>))
    /\ idx' = 1
    /\ pc' = "cleanup"
    /\ UNCHANGED << rvars, cvars, tvars, bvars, lvars, vdis, vm_vbds, task_status >>
    /\ UNCHANGED << run, error, backup_dir, vm_snapshot, snap_vdis, vdi,
                    cbt_enabled, output_file, snapshots, latest_backup >>

\* _vm_backup, lines 202-207: how a VDI is retired
RetiresByDestroy(cbt) == "VDI.destroy"

RetireCall(cbt) == IF cbt THEN "VDI.data_destroy" ELSE "VDI.destroy"

\* _vm_backup, lines 201-207, for the next VDI of the list
CleanupVdi ==
    /\ pc = "cleanup"
    /\ idx <= Len(snap_vdis)
    /\ LET v == snap_vdis[idx]
           op == RetireCall(vdis[v].cbt_enabled)
       IN /\ calls' = Append(calls, Call(op, << v >>))
          /\ vdis' = [vdis EXCEPT ![v].status =
                         IF op = "VDI.data_destroy" THEN "metadata" ELSE "destroyed"]
    /\ idx' = idx + 1
    /\ UNCHANGED << rvars, cvars, tvars, bvars, lvars, vm_vbds, vm_snapshots, task_status >>
    /\ UNCHANGED << pc, run, error, backup_dir, vm_snapshot, snap_vdis, vdi,
                    cbt_enabled, output_file, snapshots, latest_backup >>

\* backup() returns
BackupReturn ==
    /\ pc = "cleanup"
    /\ idx > Len(snap_vdis)
    /\ pc' = "done"
    /\ backup_dir' = 0
    /\ vm_snapshot' = 0
    /\ snap_vdis' = << >>
    /\ idx' = 0
    /\ UNCHANGED << rvars, cvars, tvars, bvars, hvars, lvars >>
    /\ UNCHANGED << run, error, vdi, cbt_enabled, output_file, snapshots,
                    latest_backup, calls >>

\* A second passes. The clock is read by _get_timestamp and by VM.snapshot
\* only, so the seconds that pass are taken right before those two.
Tick ==
    /\ \/ pc = "enable_cbt" /\ idx > Len(GetVdisOfVm(vm_vbds))
       \/ pc = "snapshot_vm"
    /\ now < MaxClock
    /\ now' = now + 1
    /\ UNCHANGED << rvars, cvars, tvars, bvars, hvars, pvars, tree, file_content >>

\* Someone else turns change tracking off on a disk of the VM
\* (VDI.disable_cbt is not allowed on a snapshot). enable_cbt undoes it at
\* the start of a run, so it shows only when it comes between enable_cbt
\* and VM.snapshot; it is taken right before VM.snapshot, on any one disk
\* of the VM and on no more than one in a run.
DisableCbt ==
    /\ pc = "snapshot_vm"
    /\ \A w \in DOMAIN vdis : ~vdis[w].is_a_snapshot => vdis[w].cbt_enabled
    /\ \E v \in DOMAIN vdis :
        /\ ~vdis[v].is_a_snapshot
        /\ vdis[v].cbt_enabled
        /\ vdis' = [vdis EXCEPT ![v].cbt_enabled = FALSE]
    /\ UNCHANGED << rvars, cvars, tvars, bvars, lvars, pvars, vm_vbds, vm_snapshots, task_status >>

\* A VM of up to MaxDisks devices, any of them empty, no change tracking
\* yet, an empty backup tree.
Init ==
    /\ BitmapIdle
    /\ TransferIdle
    /\ \E n \in 1..MaxDisks :
       \E e \in [1..n -> BOOLEAN] :
          /\ vm_vbds = [i \in 1..n |->
                IF e[i] THEN [vdi |-> NullRef, empty |-> TRUE]
                ELSE [vdi |-> Cardinality({j \in 1..i : ~e[j]}), empty |-> FALSE]]
          /\ vdis = [k \in 1..Cardinality({j \in 1..n : ~e[j]}) |->
                        VdiRecord(k, FALSE, NullRef, 0, FALSE)]
    /\ vm_snapshots = << >>
    /\ task_status = None
    /\ LocalIdle
    /\ ProcessIdle
    /\ RestoreIdle
    /\ ConcurrentIdle

Next ==
    \/ BackupStart
    \/ EnableCbt
    \/ GetNewBackupDir
    \/ SaveVmMetadata
    \/ SnapshotVm
    \/ VmBackupListVdis
    \/ VdiBackupBegin
    \/ Transfer
    \/ CompareChecksumsStart
    \/ TaskFinishes
    \/ PollPending
    \/ TaskResult
    \/ AssertChecksums
    \/ VmDestroy
    \/ CleanupVdi
    \/ BackupReturn
    \/ Tick
    \/ DisableCbt

Spec == Init /\ [][Next]_vars

\* The runs in which the server finishes every task it was given and the
\* process, once its loop condition is false, goes on: the loop of
\* _wait_for_task_to_finish sleeps one second and asks again, for ever.
LiveSpec == Init /\ [][Next]_vars /\ WF_vars(TaskFinishes) /\ WF_vars(TaskResult)

(***************************************************************************)
(* The transfer engine (VdiDownloader), on the content of one disk: a      *)
(* block is 64 KiB and holds one of two values.                            *)
(***************************************************************************)
\* BackupConfig.__init__, line 98: the downloader's chunk, in 64 KiB blocks
ChunkBlocks == (4 * 1024 * 1024) \div BLOCK_SIZE

\* full_vdi_backup from block `from` on: one chunk is read from the server
\* and written at the same offset, up to the disk's size.
RECURSIVE FullLoop(_, _, _)
FullLoop(remote, from, file) ==
    IF from >= Len(remote) THEN file
    ELSE LET upto == Min2(from + ChunkBlocks, Len(remote))
         IN FullLoop(remote, upto, file \o SubSeq(remote, from + 1, upto))

\* VdiDownloader.full_vdi_backup
FullVdiBackup(remote) == FullLoop(remote, 0, << >>)

\* block b (from 0) lies inside one of the extents
InExtents(b, es) ==
    \E k \in 1..Len(es) :
        /\ es[k][1] <= b * BLOCK_SIZE
        /\ (b + 1) * BLOCK_SIZE <= es[k][1] + es[k][2]

\* VdiDownloader.incremental_vdi_backup: a file of the disk's size, the
\* ranges inside a changed extent read from the server, the others copied
\* from the prior local backup.
IncrementalVdiBackup(remote, prior, es) ==
    [k \in 1..Len(remote) |->
        IF InExtents(k - 1, es) THEN remote[k] ELSE prior[k]]

\* VDI.list_changed_blocks as the caller receives it: the base64 text of a
\* bitmap with the blocks of set S marked.
ListChangedBlocks(n, S) == B64Encode(BitmapOf(n, S))

\* Any two snapshots of a disk of up to MaxDiskBlocks blocks, any local
\* file as the prior backup, any set of blocks marked by the server.
TransferInit ==
    /\ \E n \in 1..MaxDiskBlocks :
       \E S \in SUBSET (0..(n - 1)) :
          /\ disk_prev \in [1..n -> {0, 1}]
          /\ disk_cur \in [1..n -> {0, 1}]
          /\ prior_backup \in [1..n -> {0, 1}]
          /\ cbt_bitmap_b64 = ListChangedBlocks(n, S)
    /\ bitmap = CbtBitmapInit(cbt_bitmap_b64)
    /\ extents = None
    /\ statistics = None
    /\ changed_size = None
    /\ full_file = None
    /\ incr_file = None
    /\ HypervisorIdle
    /\ LocalIdle
    /\ ProcessIdle
    /\ RestoreIdle
    /\ ConcurrentIdle

\* _vdi_backup, lines 172-174
FullTransfer ==
    /\ IsNone(full_file)
    /\ full_file' = Some(FullVdiBackup(disk_cur))
    /\ UNCHANGED << rvars, cvars, bvars, hvars, lvars, pvars >>
    /\ UNCHANGED << disk_prev, disk_cur, prior_backup, incr_file >>

\* _vdi_backup, lines 177-182
IncrementalTransfer ==
    /\ IsNone(incr_file)
    /\ extents' = Some(GetExtents(bitmap))
    /\ incr_file' = Some(IncrementalVdiBackup(disk_cur, prior_backup, GetExtents(bitmap)))
    /\ UNCHANGED << rvars, cvars, hvars, lvars, pvars >>
    /\ UNCHANGED << cbt_bitmap_b64, bitmap, statistics, changed_size >>
    /\ UNCHANGED << disk_prev, disk_cur, prior_backup, full_file >>

TransferNext ==
    \/ FullTransfer
    \/ IncrementalTransfer

TransferSpec == TransferInit /\ [][TransferNext]_vars

(***************************************************************************)
(* backup.py: BackupConfig.restore and restore_vdi. They name the session  *)
(* as session and self._session and the size of the new disk as size:      *)
(* these are read as the session of the BackupConfig and the size of the   *)
(* backup file, and restore's sr as the sr of restore_vdi.                 *)
(***************************************************************************)
\* get_connected_host: the first PBD of the SR that is currently attached,
\* None when there is none (the default of next)
GetConnectedHost(sr_pbds) ==
    LET attached == {i \in DOMAIN sr_pbds : sr_pbds[i]}
    IN IF attached = {} THEN None
       ELSE Some(CHOOSE i \in attached : \A j \in attached : i <= j)

\* a response whose status is never looked at
IgnoresStatus(ok) == FALSE

\* Response.raise_for_status (lines 69, 268): raises HTTPError when the
\* request did not succeed
RaiseForStatus(ok) == ~ok

\* An exception propagates out of restore(): its locals are gone too.
RestoreRaise(exception) ==
    /\ Raise(exception)
    /\ host' = None
    /\ dir_listing' = << >>
    /\ vdi_map' = << >>

\* verify.session_for_host(session, host) is made for the host found; what
\* it does with None is not in this repository: it may raise.
SessionForHost(h) == IF IsNone(h) THEN BOOLEAN ELSE {TRUE}

\* A record directory of timestamp 1 with the metadata blob and the files
\* of up to MaxDisks disks, and a storage repository with up to MaxPbds
\* PBDs, each attached or not.
RestoreInit ==
    /\ BitmapIdle
    /\ TransferIdle
    /\ ConcurrentIdle
    /\ \E d \in 0..MaxDisks :
        /\ vdis = [k \in 1..d |-> VdiRecord(k, FALSE, NullRef, 0, FALSE)]
        /\ tree = [t \in {1} |-> {"VM_metadata"} \cup {UuidOf(k) : k \in 1..d}]
        /\ file_content =
              [b \in {<< 1, f >> : f \in {"VM_metadata"} \cup {UuidOf(k) : k \in 1..d}} |->
                  IF b[2] = "VM_metadata" THEN "metadata" ELSE "exact"]
    /\ pbds \in UNION {[1..n -> BOOLEAN] : n \in 0..MaxPbds}
    /\ vm_vbds = << >>
    /\ vm_snapshots = << >>
    /\ task_status = None
    /\ now = 1
    /\ ProcessIdle
    /\ host = None
    /\ dir_listing = << >>
    /\ vdi_map = << >>

\* restore, lines 247-251: the host is looked up, the map is empty and the
\* directory is listed in an order the file system chooses
RestoreStart ==
    /\ pc = "idle"
    /\ \E timestamp \in DOMAIN tree :
        /\ backup_dir' = timestamp
        /\ dir_listing' \in Enumerations(tree[timestamp])
    /\ host' = GetConnectedHost(pbds)
    /\ vdi_map' = << >>
    /\ idx' = 1
    /\ pc' = "restore_loop"
    /\ UNCHANGED << cvars, tvars, bvars, hvars, lvars, pbds >>
    /\ UNCHANGED << run, error, vm_snapshot, snap_vdis, vdi, cbt_enabled,
                    output_file, snapshots, latest_backup, calls >>

\* restore, lines 252-253: the metadata blob is passed over
RestoreSkipMetadata ==
    /\ pc = "restore_loop"
    /\ idx <= Len(dir_listing)
    /\ dir_listing[idx] = "VM_metadata"
    /\ idx' = idx + 1
    /\ UNCHANGED << rvars, cvars, tvars, bvars, hvars, lvars >>
    /\ UNCHANGED << pc, run, error, backup_dir, vm_snapshot, snap_vdis, vdi,
                    cbt_enabled, output_file, snapshots, latest_backup, calls >>

\* restore_vdi, lines 52-61: VDI.create on the SR, which the server may
\* refuse
RestoreVdiCreate ==
    /\ pc = "restore_loop"
    /\ idx <= Len(dir_listing)
    /\ dir_listing[idx] # "VM_metadata"
    /\ \E accepted \in BOOLEAN :
        IF accepted
        THEN /\ vdis' = Append(vdis, VdiRecord(Len(vdis) + 1, FALSE, NullRef, now, FALSE))
             /\ vdi' = Len(vdis) + 1
             /\ calls' = Append(calls, Call("VDI.create", << Len(vdis) + 1 >>))
             /\ pc' = "restore_upload"
             /\ UNCHANGED << rvars, error, backup_dir, vm_snapshot, snap_vdis,
                             idx, cbt_enabled, output_file, latest_backup >>
        ELSE /\ RestoreRaise("XenAPI.Failure")
             /\ UNCHANGED << vdis, calls, pbds >>
    /\ UNCHANGED << cvars, tvars, bvars, lvars, vm_vbds, vm_snapshots, task_status >>
    /\ UNCHANGED << run, snapshots >>

\* restore_vdi, lines 63-71, and restore, lines 255-257: the file is PUT to
\* import_raw_vdi of the new VDI; when the request succeeded the pair
\* (name of the file, uuid of the new VDI) enters the map.
RestoreVdiUpload ==
    /\ pc = "restore_upload"
    /\ \E connects \in SessionForHost(host), ok \in BOOLEAN :
        IF ~connects
        THEN /\ RestoreRaise("HostError")
             /\ UNCHANGED << calls, pbds >>
        ELSE /\ calls' = Append(calls,
                    Call("import_raw_vdi", << vdi, dir_listing[idx], ok >>))
             /\ IF RaiseForStatus(ok)
                THEN /\ RestoreRaise("HTTPError")
                     /\ UNCHANGED pbds
                ELSE /\ vdi_map' = Put(vdi_map, dir_listing[idx], vdis[vdi].uuid)
                     /\ idx' = idx + 1
                     /\ vdi' = 0
                     /\ pc' = "restore_loop"
                     /\ UNCHANGED << pbds, host, dir_listing >>
                     /\ UNCHANGED << error, backup_dir, vm_snapshot, snap_vdis,
                                     cbt_enabled, output_file, latest_backup >>
    /\ UNCHANGED << cvars, tvars, bvars, hvars, lvars >>
    /\ UNCHANGED << run, snapshots >>

\* restore, lines 258-268, after the loop: the task is created and the
\* metadata blob is PUT to import_metadata with one vdi: parameter per entry
\* of the map
RestoreImport ==
    /\ pc = "restore_loop"
    /\ idx > Len(dir_listing)
    /\ \E connects \in SessionForHost(host), ok \in BOOLEAN :
        IF ~connects
        THEN /\ calls' = Append(calls, Call("task.create", << >>))
             /\ RestoreRaise("HostError")
             /\ UNCHANGED << task_status, pbds >>
        ELSE /\ calls' = calls \o << Call("task.create", << >>),
                                    Call("import_metadata", << vdi_map, ok >>) >>
             /\ IF RaiseForStatus(ok)
                THEN /\ RestoreRaise("HTTPError")
                     /\ UNCHANGED << task_status, pbds >>
                ELSE /\ task_status' = Some("pending")
                     /\ pc' = "restore_wait"
                     /\ UNCHANGED << rvars, error, backup_dir, vm_snapshot,
                                     snap_vdis, idx, vdi, cbt_enabled,
                                     output_file, latest_backup >>
    /\ UNCHANGED << cvars, tvars, bvars, lvars, vdis, vm_vbds, vm_snapshots >>
    /\ UNCHANGED << run, snapshots >>

\* restore, line 270, _wait_for_task_to_finish: the import task is pending
RestorePollPending ==
    /\ pc = "restore_wait"
    /\ StillPending(task_status)
    /\ UNCHANGED vars

\* restore, lines 270-271: the result of the import task is read and
\* restore returns
RestoreTaskResult ==
    /\ pc = "restore_wait"
    /\ ~StillPending(task_status)
    /\ pc' = "restored"
    /\ backup_dir' = 0
    /\ idx' = 0
    /\ host' = None
    /\ dir_listing' = << >>
    /\ vdi_map' = << >>
    /\ UNCHANGED << cvars, tvars, bvars, hvars, lvars, pbds >>
    /\ UNCHANGED << run, error, vm_snapshot, snap_vdis, vdi, cbt_enabled,
                    output_file, snapshots, latest_backup, calls >>

RestoreNext ==
    \/ RestoreStart
    \/ RestoreSkipMetadata
    \/ RestoreVdiCreate
    \/ RestoreVdiUpload
    \/ RestoreImport
    \/ TaskFinishes
    \/ RestorePollPending
    \/ RestoreTaskResult

RestoreSpec == RestoreInit /\ [][RestoreNext]_vars

(***************************************************************************)
(* Two invocations of backup() on the same VM at once: two processes, each *)
(* with its own session and locals, one server and one backup tree, and no *)
(* lock anywhere in backup.py. A step is one call to the server or one     *)
(* access to the tree; a transfer creates its output file and completes it *)
(* later.                                                                  *)
(***************************************************************************)
Procs == {1, 2}

\* the locals of a process that has not called backup()
IdleProc ==
    [pc |-> "idle", backup_dir |-> 0, vm_snapshot |-> 0, snap_vdis |-> << >>,
     idx |-> 0, vdi |-> 0, cbt_enabled |-> FALSE, output_file |-> None,
     latest_backup |-> None, writing |-> "none", task |-> None,
     error |-> "none"]

\* an exception propagates out of backup() in a process
ProcRaise(self, exception) ==
    [IdleProc EXCEPT !.pc = "failed", !.error = exception]

ConcurrentInit ==
    /\ BitmapIdle
    /\ TransferIdle
    /\ RestoreIdle
    /\ \E n \in 1..MaxDisks :
       \E e \in [1..n -> BOOLEAN] :
          /\ vm_vbds = [i \in 1..n |->
                IF e[i] THEN [vdi |-> NullRef, empty |-> TRUE]
                ELSE [vdi |-> Cardinality({j \in 1..i : ~e[j]}), empty |-> FALSE]]
          /\ vdis = [k \in 1..Cardinality({j \in 1..n : ~e[j]}) |->
                        VdiRecord(k, FALSE, NullRef, 0, FALSE)]
    /\ vm_snapshots = << >>
    /\ task_status = None
    /\ LocalIdle
    /\ ProcessIdle
    /\ procs = [p \in Procs |-> IdleProc]

\* backup() is entered (lines 237-240)
ProcBackupStart(p) ==
    /\ procs[p].pc = "idle"
    /\ procs' = [procs EXCEPT ![p] = [@ EXCEPT !.pc = "enable_cbt", !.idx = 1]]
    /\ UNCHANGED << rvars, tvars, bvars, hvars, lvars, pvars >>

\* enable_cbt: VDI.enable_cbt on the next non-empty VDI of the VM
ProcEnableCbt(p) ==
    /\ procs[p].pc = "enable_cbt"
    /\ procs[p].idx <= Len(GetVdisOfVm(vm_vbds))
    /\ vdis' = [vdis EXCEPT ![GetVdisOfVm(vm_vbds)[procs[p].idx]].cbt_enabled = TRUE]
    /\ procs' = [procs EXCEPT ![p] = [@ EXCEPT !.idx = @ + 1]]
    /\ UNCHANGED << rvars, tvars, bvars, lvars, pvars, vm_vbds, vm_snapshots,
                    task_status >>

\* _get_new_backup_dir
ProcGetNewBackupDir(p) ==
    /\ procs[p].pc = "enable_cbt"
    /\ procs[p].idx > Len(GetVdisOfVm(vm_vbds))
    /\ IF MkdirRaises(tree, GetTimestamp)
       THEN /\ procs' = [procs EXCEPT ![p] = ProcRaise(@, "FileExistsError")]
            /\ UNCHANGED tree
       ELSE /\ tree' = IF GetTimestamp \in DOMAIN tree THEN tree
                       ELSE Put(tree, GetTimestamp, {})
            /\ procs' = [procs EXCEPT ![p] =
                  [@ EXCEPT !.backup_dir = GetTimestamp, !.pc = "save_vm_metadata"]]
    /\ UNCHANGED << rvars, tvars, bvars, hvars, pvars, file_content, now >>

\* _save_vm_metadata
ProcSaveVmMetadata(p) ==
    /\ procs[p].pc = "save_vm_metadata"
    /\ tree' = [tree EXCEPT ![procs[p].backup_dir] = @ \cup {"VM_metadata"}]
    /\ file_content' =
          Put(file_content, << procs[p].backup_dir, "VM_metadata" >>, "metadata")
    /\ procs' = [procs EXCEPT ![p] = [@ EXCEPT !.pc = "snapshot_vm"]]
    /\ UNCHANGED << rvars, tvars, bvars, hvars, pvars, now >>

\* _snapshot_vm
ProcSnapshotVm(p) ==
    /\ procs[p].pc = "snapshot_vm"
    /\ LET snap == ServerVmSnapshot(vm_vbds) IN
        /\ vdis' = vdis \o snap.new_vdis
        /\ vm_snapshots' = Append(vm_snapshots, snap.record)
    /\ procs' = [procs EXCEPT ![p] =
          [@ EXCEPT !.vm_snapshot = Len(vm_snapshots) + 1, !.pc = "list_vdis"]]
    /\ UNCHANGED << rvars, tvars, bvars, lvars, pvars, vm_vbds, task_status >>

\* _vm_backup, line 186
ProcVmBackupListVdis(p) ==
    /\ procs[p].pc = "list_vdis"
    /\ procs' = [procs EXCEPT ![p] =
          [@ EXCEPT !.snap_vdis = GetVdisOfVm(vm_snapshots[procs[p].vm_snapshot].vbds),
                    !.idx = 1, !.pc = "vm_backup"]]
    /\ UNCHANGED << rvars, tvars, bvars, hvars, lvars, pvars >>

\* _vdi_backup, lines 163-170, for the next VDI of the list
ProcVdiBackupBegin(p) ==
    /\ procs[p].pc = "vm_backup"
    /\ procs[p].idx <= Len(procs[p].snap_vdis)
    /\ LET v == procs[p].snap_vdis[procs[p].idx] IN
       \E found \in (IF ConsultsResolver(vdis[v].cbt_enabled)
                     THEN GetLatestBackupOfVdi(v) ELSE {None}) :
          procs' = [procs EXCEPT ![p] =
             [@ EXCEPT !.vdi = v,
                       !.output_file = Some(<< procs[p].backup_dir, vdis[v].uuid >>),
                       !.cbt_enabled = vdis[v].cbt_enabled,
                       !.latest_backup = found,
                       !.pc = "transfer"]]
    /\ UNCHANGED << rvars, tvars, bvars, hvars, lvars, pvars >>

\* _vdi_backup, lines 171-182: the downloader opens the output file; what
\* the file will hold when the transfer completes depends on the prior
\* backup it reads.
ProcTransferOpen(p) ==
    /\ procs[p].pc = "transfer"
    /\ tree' = [tree EXCEPT ![procs[p].backup_dir] =
                   @ \cup {Get(procs[p].output_file)[2]}]
    /\ file_content' = Put(file_content, Get(procs[p].output_file), "partial")
    /\ procs' = [procs EXCEPT ![p] =
          [@ EXCEPT !.writing =
                       IF IsNone(procs[p].latest_backup) THEN FullVdiBackupContent
                       ELSE IncrementalVdiBackupContent(
                                file_content[Get(procs[p].latest_backup)[2]]),
                    !.pc = "transferring"]]
    /\ UNCHANGED << rvars, tvars, bvars, hvars, pvars, now >>

\* the transfer completes, or is cut by a transport error and leaves the
\* file as it is
ProcTransferClose(p) ==
    /\ procs[p].pc = "transferring"
    /\ \E completes \in BOOLEAN :
        IF completes
        THEN /\ file_content' =
                   Put(file_content, Get(procs[p].output_file), procs[p].writing)
             /\ procs' = [procs EXCEPT ![p] =
                   [@ EXCEPT !.writing = "none", !.pc = "compare_checksums"]]
        ELSE /\ procs' = [procs EXCEPT ![p] = ProcRaise(@, "TransportError")]
             /\ UNCHANGED file_content
    /\ UNCHANGED << rvars, tvars, bvars, hvars, pvars, tree, now >>

\* _compare_checksums, lines 146-150
ProcCompareChecksumsStart(p) ==
    /\ procs[p].pc = "compare_checksums"
    /\ procs' = [procs EXCEPT ![p] =
          [@ EXCEPT !.task = Some("pending"), !.pc = "wait_for_task"]]
    /\ UNCHANGED << rvars, tvars, bvars, hvars, lvars, pvars >>

\* the server finishes the checksum task of a process
ProcTaskFinishes(p) ==
    /\ procs[p].task = Some("pending")
    /\ procs' = [procs EXCEPT ![p] = [@ EXCEPT !.task = Some("success")]]
    /\ UNCHANGED << rvars, tvars, bvars, hvars, lvars, pvars >>

\* _wait_for_task_result and the assertion of line 153
ProcAssertChecksums(p) ==
    /\ procs[p].pc = "wait_for_task"
    /\ ~StillPending(procs[p].task)
    /\ procs' = [procs EXCEPT ![p] =
          IF AssertPasses(ChecksumsEqual(file_content[Get(procs[p].output_file)]))
          THEN [@ EXCEPT !.idx = @ + 1, !.pc = "vm_backup", !.vdi = 0,
                         !.cbt_enabled = FALSE, !.output_file = None,
                         !.latest_backup = None, !.task = None]
          ELSE ProcRaise(@, "AssertionError")]
    /\ UNCHANGED << rvars, tvars, bvars, hvars, lvars, pvars >>

\* _vm_backup, line 199
ProcVmDestroy(p) ==
    /\ procs[p].pc = "vm_backup"
    /\ procs[p].idx > Len(procs[p].snap_vdis)
    /\ vm_snapshots' = [vm_snapshots EXCEPT ![procs[p].vm_snapshot].exists = FALSE]
    /\ procs' = [procs EXCEPT ![p] = [@ EXCEPT !.idx = 1, !.pc = "cleanup"]]
    /\ UNCHANGED << rvars, tvars, bvars, lvars, pvars, vdis, vm_vbds, task_status >>

\* _vm_backup, lines 201-207, for the next VDI of the list
ProcCleanupVdi(p) ==
    /\ procs[p].pc = "cleanup"
    /\ procs[p].idx <= Len(procs[p].snap_vdis)
    /\ LET v == procs[p].snap_vdis[procs[p].idx] IN
          vdis' = [vdis EXCEPT ![v].status =
                      IF RetireCall(vdis[v].cbt_enabled) = "VDI.data_destroy"
                      THEN "metadata" ELSE "destroyed"]
    /\ procs' = [procs EXCEPT ![p] = [@ EXCEPT !.idx = @ + 1]]
    /\ UNCHANGED << rvars, tvars, bvars, lvars, pvars, vm_vbds, vm_snapshots,
                    task_status >>

\* backup() returns
ProcBackupReturn(p) ==
    /\ procs[p].pc = "cleanup"
    /\ procs[p].idx > Len(procs[p].snap_vdis)
    /\ procs' = [procs EXCEPT ![p] = [IdleProc EXCEPT !.pc = "done"]]
    /\ UNCHANGED << rvars, tvars, bvars, hvars, lvars, pvars >>

\* a second passes, before a process reads the clock
ConcurrentTick ==
    /\ \E p \in Procs :
          \/ /\ procs[p].pc = "enable_cbt"
             /\ procs[p].idx > Len(GetVdisOfVm(vm_vbds))
          \/ procs[p].pc = "snapshot_vm"
    /\ now < MaxClock
    /\ now' = now + 1
    /\ UNCHANGED << rvars, cvars, tvars, bvars, hvars, pvars, tree, file_content >>

ConcurrentNext ==
    \/ \E p \in Procs : ProcBackupStart(p)
    \/ \E p \in Procs : ProcEnableCbt(p)
    \/ \E p \in Procs : ProcGetNewBackupDir(p)
    \/ \E p \in Procs : ProcSaveVmMetadata(p)
    \/ \E p \in Procs : ProcSnapshotVm(p)
    \/ \E p \in Procs : ProcVmBackupListVdis(p)
    \/ \E p \in Procs : ProcVdiBackupBegin(p)
    \/ \E p \in Procs : ProcTransferOpen(p)
    \/ \E p \in Procs : ProcTransferClose(p)
    \/ \E p \in Procs : ProcCompareChecksumsStart(p)
    \/ \E p \in Procs : ProcTaskFinishes(p)
    \/ \E p \in Procs : ProcAssertChecksums(p)
    \/ \E p \in Procs : ProcVmDestroy(p)
    \/ \E p \in Procs : ProcCleanupVdi(p)
    \/ \E p \in Procs : ProcBackupReturn(p)
    \/ ConcurrentTick

ConcurrentSpec == ConcurrentInit /\ [][ConcurrentNext]_vars

(***************************************************************************)
(* Properties of the bitmap wrapper, checked under BitmapSpec.             *)
(***************************************************************************)
NBits == 8 * Len(bitmap)
\* block b (from 0) is marked changed
BitSet(b) ==
    /\ b \in 0..(NBits - 1)
    /\ (bitmap[(b \div 8) + 1] \div Pow2(7 - (b % 8))) % 2 = 1
SetBlocks == {b \in 0..(NBits - 1) : BitSet(b)}

RECURSIVE SumLengths(_)
SumLengths(es) == IF Len(es) = 0 THEN 0 ELSE es[1][2] + SumLengths(Tail(es))

\* The maximal runs of set bits, as <<first block, number of blocks>>.
MaximalRuns ==
    {r \in (0..(NBits - 1)) \X (1..NBits) :
        /\ r[1] + r[2] <= NBits
        /\ \A b \in r[1]..(r[1] + r[2] - 1) : BitSet(b)
        /\ ~BitSet(r[1] - 1)
        /\ ~BitSet(r[1] + r[2])}

\* C1: the extents are strictly increasing by offset and do not overlap,
\* their lengths sum to the changed_blocks_size of the statistics, and that
\* is the number of set bits times 65536 (which _get_changed_blocks_size
\* computes as well).
C1_ExtentsOrderedAndSized ==
    /\ IsSome(extents) =>
         \A k \in 1..(Len(Get(extents)) - 1) :
            /\ Get(extents)[k][1] < Get(extents)[k + 1][1]
            /\ Get(extents)[k][1] + Get(extents)[k][2] <= Get(extents)[k + 1][1]
    /\ (IsSome(extents) /\ IsSome(statistics)) =>
         SumLengths(Get(extents)) = Get(statistics).changed_blocks_size
    /\ IsSome(statistics) =>
         Get(statistics).changed_blocks_size = Cardinality(SetBlocks) * 65536
    /\ IsSome(changed_size) =>
         Get(changed_size) = Cardinality(SetBlocks) * 65536

C1_Witness ==
    /\ IsSome(extents) /\ IsSome(statistics) /\ IsSome(changed_size)
    /\ Len(Get(extents)) >= 3
    /\ Get(statistics).changed_blocks_size = 4 * 65536

\* C2: the extents are exactly the maximal runs of set bits: a block lies in
\* an extent iff its bit is set, offsets and lengths are multiples of the
\* block size, and consecutive extents have a clear block between them.
C2_ExtentsAreMaximalRuns ==
    IsSome(extents) =>
        LET es == Get(extents) IN
        /\ \A b \in 0..(NBits - 1) :
              BitSet(b) <=> \E k \in 1..Len(es) :
                                /\ es[k][1] <= b * 65536
                                /\ b * 65536 < es[k][1] + es[k][2]
        /\ \A k \in 1..Len(es) :
              /\ es[k][1] % 65536 = 0
              /\ es[k][2] % 65536 = 0
              /\ es[k][2] > 0
        /\ \A k \in 1..(Len(es) - 1) :
              /\ es[k][1] + es[k][2] < es[k + 1][1]
              /\ ~BitSet((es[k][1] + es[k][2]) \div 65536)
        /\ {<< es[k][1] \div 65536, es[k][2] \div 65536 >> : k \in 1..Len(es)}
              = MaximalRuns
        /\ Len(es) = Cardinality(MaximalRuns)

C2_Witness ==
    /\ IsSome(extents)
    /\ Len(Get(extents)) = 2
    /\ \E b \in 0..(NBits - 2) : BitSet(b) /\ BitSet(b + 1)

\* C3: an all-one bitmap of N >= 1 blocks gives the single extent
\* (0, N * 65536); whenever the last bit is set, the run open at the end of
\* the scan is the last extent and ends at the disk size.
C3_TrailingRunEmitted ==
    IsSome(extents) =>
        LET es == Get(extents) IN
        /\ (NBits >= 1 /\ Cardinality(SetBlocks) = NBits) =>
              es = << << 0, NBits * 65536 >> >>
        /\ BitSet(NBits - 1) =>
              /\ Len(es) >= 1
              /\ es[Len(es)][1] + es[Len(es)][2] = NBits * 65536
              /\ IsSome(statistics) =>
                    es[Len(es)][1] + es[Len(es)][2] = Get(statistics).size

C3_Witness ==
    /\ IsSome(extents) /\ IsSome(statistics)
    /\ NBits >= 1
    /\ Cardinality(SetBlocks) = NBits
    /\ Get(extents) = << << 0, Get(statistics).size >> >>

\* C4: an all-zero bitmap gives no extent and statistics with extents = 0,
\* changed_blocks_size = 0 and min, max and average extent length None;
\* with at least one bit set the three are defined.
C4_AllZeroStatistics ==
    /\ (IsSome(extents) /\ SetBlocks = {}) => Get(extents) = << >>
    /\ (IsSome(statistics) /\ SetBlocks = {}) =>
          /\ Get(statistics).extents = 0
          /\ Get(statistics).changed_blocks_size = 0
          /\ Get(statistics).min_extent_length = None
          /\ Get(statistics).max_extent_length = None
          /\ Get(statistics).average_extent_length = None
    /\ (IsSome(statistics) /\ SetBlocks # {}) =>
          /\ IsSome(Get(statistics).min_extent_length)
          /\ IsSome(Get(statistics).max_extent_length)
          /\ IsSome(Get(statistics).average_extent_length)

C4_Witness ==
    /\ IsSome(extents) /\ IsSome(statistics)
    /\ NBits >= 8
    /\ SetBlocks = {}
    /\ Get(statistics).extents = 0

\* C5: with a set bit, the statistics count the maximal runs, give the
\* shortest and the longest run as min and max, and the average is
\* changed_blocks_size / extents, between min and max; blocks {2,3,7} give
\* extents (131072, 131072), (458752, 65536), count 2, 196608 changed bytes,
\* min 65536, max 131072, average 98304.
C5_StatisticsOfRuns ==
    /\ (IsSome(statistics) /\ SetBlocks # {}) =>
          LET st == Get(statistics)
              lens == {r[2] * 65536 : r \in MaximalRuns}
              avg == Get(st.average_extent_length)
          IN
          /\ st.extents = Cardinality(MaximalRuns)
          /\ Get(st.min_extent_length) \in lens
          /\ \A l \in lens : Get(st.min_extent_length) <= l
          /\ Get(st.max_extent_length) \in lens
          /\ \A l \in lens : Get(st.max_extent_length) >= l
          /\ avg.den > 0
          /\ avg.num * st.extents = st.changed_blocks_size * avg.den
          /\ Get(st.min_extent_length) * avg.den <= avg.num
          /\ avg.num <= Get(st.max_extent_length) * avg.den
    /\ (SetBlocks = {2, 3, 7} /\ NBits = 8) =>
          /\ IsSome(extents) =>
                Get(extents) = << << 131072, 131072 >>, << 458752, 65536 >> >>
          /\ IsSome(statistics) =>
                /\ Get(statistics).extents = 2
                /\ Get(statistics).changed_blocks_size = 196608
                /\ Get(statistics).min_extent_length = Some(65536)
                /\ Get(statistics).max_extent_length = Some(131072)
                /\ Get(statistics).average_extent_length
                      = Some([num |-> 98304, den |-> 1])

C5_Witness ==
    /\ IsSome(extents) /\ IsSome(statistics)
    /\ SetBlocks = {2, 3, 7}
    /\ NBits = 8
    /\ Get(statistics).extents = 2

(***************************************************************************)
(* Properties of the chain resolver, checked under ResolverSpec.           *)
(***************************************************************************)
\* the snapshots of the disk at hand's parent that have a local file
SnapshotsWithFile ==
    {s \in VdiGetSnapshots(vdis[vdi].snapshot_of) :
        \E d \in DOMAIN tree : vdis[s].uuid \in tree[d]}

\* position of snapshot s in the list the server returned
ListedAt(s) == CHOOSE i \in 1..Len(snapshots) : snapshots[i] = s

\* C6: the resolver returns the pair (snapshot, local file) of a snapshot
\* with the greatest creation time among the snapshots of the parent disk
\* that have a local file named by their uuid, and None when none has one;
\* newer snapshots without a file are skipped.
C6_LatestBackupIsNewestWithFile ==
    pc = "resolved" =>
        IF SnapshotsWithFile = {} THEN latest_backup = None
        ELSE /\ IsSome(latest_backup)
             /\ Get(latest_backup)[1] \in SnapshotsWithFile
             /\ \A t \in SnapshotsWithFile :
                   vdis[Get(latest_backup)[1]].snapshot_time >= vdis[t].snapshot_time
             /\ Get(latest_backup)[2][1] \in DOMAIN tree
             /\ Get(latest_backup)[2][2] \in tree[Get(latest_backup)[2][1]]
             /\ Get(latest_backup)[2][2] = vdis[Get(latest_backup)[1]].uuid

\* times T1 < T2 < T3, a local file for the snapshot at T2 only
C6_Witness ==
    /\ pc = "resolved"
    /\ Len(snapshots) = 3
    /\ IsSome(latest_backup)
    /\ SnapshotsWithFile = {Get(latest_backup)[1]}
    /\ \E t1, t3 \in VdiGetSnapshots(vdis[vdi].snapshot_of) :
          /\ vdis[t1].snapshot_time < vdis[Get(latest_backup)[1]].snapshot_time
          /\ vdis[Get(latest_backup)[1]].snapshot_time < vdis[t3].snapshot_time

\* C7 as stated: the pair returned is the same whatever the order in which
\* the server lists the snapshots.
C7_SameForEveryEnumeration ==
    pc = "resolved" =>
        \A enum \in Enumerations(VdiGetSnapshots(vdis[vdi].snapshot_of)) :
            LatestBackupResults(enum) = {latest_backup}

\* C7, amended: no secondary key is applied. Among the snapshots with a
\* local file that share the greatest creation time, the one the server
\* listed first is returned; the result is the same for every listing order
\* when only one snapshot with a local file has the greatest time.
C7_TiesKeepEnumerationOrder ==
    (pc = "resolved" /\ IsSome(latest_backup)) =>
        LET s == Get(latest_backup)[1]
            tied == {t \in SnapshotsWithFile :
                        vdis[t].snapshot_time = vdis[s].snapshot_time}
        IN /\ \A t \in tied : ListedAt(s) <= ListedAt(t)
           /\ tied = {s} =>
                 \A enum \in Enumerations(VdiGetSnapshots(vdis[vdi].snapshot_of)) :
                     LatestBackupResults(enum) = {latest_backup}

\* two snapshots with a local file and the same, greatest, time: the one
\* returned is the first listed, here the one with the greater uuid
C7_Witness ==
    /\ pc = "resolved"
    /\ IsSome(latest_backup)
    /\ \E t \in SnapshotsWithFile :
          /\ t < Get(latest_backup)[1]
          /\ vdis[t].snapshot_time = vdis[Get(latest_backup)[1]].snapshot_time
          /\ ListedAt(Get(latest_backup)[1]) < ListedAt(t)

(***************************************************************************)
(* Properties of the orchestration, checked under Spec.                    *)
(***************************************************************************)
TransferOps == {"full_vdi_backup", "incremental_vdi_backup"}
RetireOps == {"VDI.data_destroy", "VDI.destroy"}

\* positions in calls of the calls named in ops made on VDI v
CallsOn(ops, v) ==
    {i \in DOMAIN calls : calls[i].op \in ops /\ calls[i].arg = << v >>}

\* the snapshots of v's parent disk, other than v, that have a local file
PriorSnapshotsWithFile(v) ==
    {s \in VdiGetSnapshots(vdis[v].snapshot_of) \ {v} :
        \E d \in DOMAIN tree : vdis[s].uuid \in tree[d]}

\* the disk at hand has been transferred and is being verified
Transferred == pc \in {"compare_checksums", "wait_for_task", "assert_checksums"}

\* the disks of the VM snapshot whose _vdi_backup has got past its transfer
DisksTransferred ==
    IF pc \in {"vm_backup", "transfer"} THEN {snap_vdis[k] : k \in 1..(idx - 1)}
    ELSE IF Transferred THEN {snap_vdis[k] : k \in 1..idx}
    ELSE IF pc = "cleanup" THEN {snap_vdis[k] : k \in 1..Len(snap_vdis)}
    ELSE {}

\* C8: the transfer of a disk is incremental iff change tracking is enabled
\* on the snapshot disk and a snapshot of its lineage had a local file (the
\* resolver returned it); otherwise it is a full transfer; and one transfer,
\* no more, is made per disk.
C8_IncrementalIffCbtAndPriorBackup ==
    /\ \A v \in DOMAIN vdis : Cardinality(CallsOn(TransferOps, v)) <= 1
    /\ \A v \in DisksTransferred : Cardinality(CallsOn(TransferOps, v)) = 1
    /\ Transferred =>
          /\ CallsOn({"incremental_vdi_backup"}, vdi) # {}
                <=> (vdis[vdi].cbt_enabled /\ PriorSnapshotsWithFile(vdi) # {})
          /\ CallsOn({"full_vdi_backup"}, vdi) # {}
                <=> (~vdis[vdi].cbt_enabled \/ PriorSnapshotsWithFile(vdi) = {})
          /\ CallsOn({"incremental_vdi_backup"}, vdi) # {}
                <=> IsSome(latest_backup)
          /\ IsSome(latest_backup) =>
                Get(latest_backup)[1] \in PriorSnapshotsWithFile(vdi)

\* the first disk went incrementally; the second, whose change tracking was
\* off although an earlier snapshot of it has a local file, in full
C8_Witness ==
    /\ Transferred
    /\ idx = 2
    /\ CallsOn({"incremental_vdi_backup"}, snap_vdis[1]) # {}
    /\ CallsOn({"full_vdi_backup"}, snap_vdis[2]) # {}
    /\ ~vdis[vdi].cbt_enabled
    /\ PriorSnapshotsWithFile(vdi) # {}

\* the VDIs of the VM snapshot this run created
RunSnapshotVdis ==
    UNION {{v \in DOMAIN vdis :
                \E b \in DOMAIN vm_snapshots[calls[i].arg[1]].vbds :
                    /\ ~vm_snapshots[calls[i].arg[1]].vbds[b].empty
                    /\ vm_snapshots[calls[i].arg[1]].vbds[b].vdi = v} :
           i \in {j \in DOMAIN calls : calls[j].op = "VM.snapshot"}}

\* C10: cleanup destroys the VM snapshot before it retires any disk, then
\* retires each disk of the snapshot once: by VDI.data_destroy when change
\* tracking is enabled on it, by VDI.destroy otherwise; no disk is retired
\* while its VM snapshot exists.
C10_SnapshotDestroyedBeforeDisksRetired ==
    /\ \A i \in DOMAIN calls :
          calls[i].op \in RetireOps =>
             /\ \E j \in 1..(i - 1) : calls[j].op = "VM.destroy"
             /\ calls[i].arg[1] \in RunSnapshotVdis
             /\ (calls[i].op = "VDI.data_destroy")
                   <=> vdis[calls[i].arg[1]].cbt_enabled
             /\ vdis[calls[i].arg[1]].status =
                   IF vdis[calls[i].arg[1]].cbt_enabled THEN "metadata"
                   ELSE "destroyed"
    /\ \A v \in DOMAIN vdis : Cardinality(CallsOn(RetireOps, v)) <= 1
    /\ pc = "done" =>
          \A v \in RunSnapshotVdis : Cardinality(CallsOn(RetireOps, v)) = 1
    /\ \A m \in DOMAIN vm_snapshots :
          vm_snapshots[m].exists =>
             \A b \in DOMAIN vm_snapshots[m].vbds :
                ~vm_snapshots[m].vbds[b].empty =>
                   vdis[vm_snapshots[m].vbds[b].vdi].status = "live"

\* a finished run that retired one disk by data_destroy and one by destroy
C10_Witness ==
    /\ pc = "done"
    /\ Cardinality(RunSnapshotVdis) = 2
    /\ \E v, w \in RunSnapshotVdis :
          /\ CallsOn({"VDI.data_destroy"}, v) # {}
          /\ CallsOn({"VDI.destroy"}, w) # {}
          /\ vdis[v].status = "metadata"
          /\ vdis[w].status = "destroyed"

(***************************************************************************)
(* Properties of the transfers, checked under TransferSpec.                *)
(***************************************************************************)
\* the prior local backup holds the content of its own snapshot
PriorBackupExact == prior_backup = disk_prev

\* the bitmap marks every block in which the two snapshots differ
BitmapCoversChanges ==
    \A k \in 1..Len(disk_cur) : disk_prev[k] # disk_cur[k] => BitSet(k - 1)

\* C9: when the prior local backup holds its snapshot's content and the
\* bitmap marks every block that differs between the two snapshots, the
\* file of the incremental transfer has the disk's size and is identical to
\* the file of a full transfer of the same snapshot.
C9_IncrementalEqualsFull ==
    (IsSome(incr_file) /\ PriorBackupExact /\ BitmapCoversChanges) =>
        /\ Len(Get(incr_file)) = Len(disk_cur)
        /\ Get(incr_file) = disk_cur
        /\ IsSome(full_file) => Get(incr_file) = Get(full_file)

\* two changed extents around a block that is kept from the prior backup,
\* changed blocks among the marked ones, both transfers made
C9_Witness ==
    /\ IsSome(incr_file) /\ IsSome(full_file)
    /\ PriorBackupExact /\ BitmapCoversChanges
    /\ Len(Get(extents)) = 2
    /\ disk_prev # disk_cur
    /\ Get(incr_file) = Get(full_file)

(***************************************************************************)
(* Properties of failing runs, checked under Spec.                         *)
(***************************************************************************)
\* the VM snapshots this run created
RunVmSnapshots ==
    {calls[i].arg[1] : i \in {j \in DOMAIN calls : calls[j].op = "VM.snapshot"}}

\* the disks of the VM snapshot this run created, in the order of the loop
RunVdiList ==
    IF RunVmSnapshots = {} THEN << >>
    ELSE GetVdisOfVm(vm_snapshots[CHOOSE m \in RunVmSnapshots : TRUE].vbds)

\* what the local backup file of snapshot disk v holds, "absent" when there
\* is no such file
BackupFileOf(v) ==
    LET files == {b \in DOMAIN file_content : b[2] = vdis[v].uuid}
    IN IF files = {} THEN "absent"
       ELSE file_content[CHOOSE b \in files : TRUE]

\* the run has made a call named in ops
RunCalled(ops) == \E i \in DOMAIN calls : calls[i].op \in ops

\* C11 as stated: a run that met a digest mismatch on one disk goes on; when
\* the call has ended, every disk of the snapshot has been transferred and
\* the VM snapshot has been destroyed and its disks retired.
C11_MismatchGoesOnToCleanup ==
    (/\ pc \in {"done", "failed"}
     /\ \E k \in DOMAIN RunVdiList : BackupFileOf(RunVdiList[k]) = "wrong") =>
        /\ \A k \in DOMAIN RunVdiList : CallsOn(TransferOps, RunVdiList[k]) # {}
        /\ RunCalled({"VM.destroy"})
        /\ \A k \in DOMAIN RunVdiList : CallsOn(RetireOps, RunVdiList[k]) # {}

\* C11, amended: a digest mismatch aborts the whole run. The AssertionError
\* leaves backup(): the disks after the mismatching one are not transferred,
\* the VM snapshot is not destroyed and no disk is retired. A disk is
\* transferred only when the files of the disks before it matched, and
\* cleanup is reached only when every file matched.
C11_MismatchAbortsRun ==
    /\ \A k \in DOMAIN RunVdiList :
          (k > 1 /\ CallsOn(TransferOps, RunVdiList[k]) # {}) =>
              BackupFileOf(RunVdiList[k - 1]) = "exact"
    /\ RunCalled({"VM.destroy"} \cup RetireOps) =>
          \A k \in DOMAIN RunVdiList : BackupFileOf(RunVdiList[k]) = "exact"
    /\ (pc = "failed" /\ error = "AssertionError") =>
          /\ \E k \in DOMAIN RunVdiList :
                /\ BackupFileOf(RunVdiList[k]) = "wrong"
                /\ \A j \in DOMAIN RunVdiList :
                      j > k => /\ CallsOn(TransferOps, RunVdiList[j]) = {}
                               /\ BackupFileOf(RunVdiList[j]) = "absent"
          /\ ~RunCalled({"VM.destroy"} \cup RetireOps)
          /\ \A m \in RunVmSnapshots : vm_snapshots[m].exists
          /\ \A k \in DOMAIN RunVdiList : vdis[RunVdiList[k]].status = "live"

\* the first of two disks mismatched: the run has ended, the second disk
\* has no file and the VM snapshot is still there
C11_Witness ==
    /\ pc = "failed"
    /\ error = "AssertionError"
    /\ Len(RunVdiList) = 2
    /\ BackupFileOf(RunVdiList[1]) = "wrong"
    /\ BackupFileOf(RunVdiList[2]) = "absent"
    /\ \A m \in RunVmSnapshots : vm_snapshots[m].exists

(***************************************************************************)
(* Properties of restore, checked under RestoreSpec.                       *)
(***************************************************************************)
\* the disk backup files of the record: every file but the metadata blob
RecordDiskFiles == UNION {tree[t] : t \in DOMAIN tree} \ {"VM_metadata"}

\* positions in calls of the uploads of disk file f, successful or not
UploadsOf(f) ==
    {i \in DOMAIN calls :
        /\ calls[i].op = "import_raw_vdi"
        /\ calls[i].arg[2] = f}

\* positions in calls of the uploads that failed
FailedUploads ==
    {i \in DOMAIN calls : calls[i].op = "import_raw_vdi" /\ ~calls[i].arg[3]}

\* positions in calls of the metadata import requests
ImportRequests == {i \in DOMAIN calls : calls[i].op = "import_metadata"}

C13_CollisionFailsBeforeSnapshot ==
    [][(/\ pc = "enable_cbt"
        /\ idx > Len(GetVdisOfVm(vm_vbds))
        /\ now' = now
        /\ now \in DOMAIN tree) =>
           /\ pc' = "failed"
           /\ error' = "FileExistsError"
           /\ tree' = tree
           /\ file_content' = file_content
           /\ vm_snapshots' = vm_snapshots
           /\ vdis' = vdis
           /\ \A i \in DOMAIN calls' : calls'[i].op = "VDI.enable_cbt"]_vars

\* a second run within the second of a finished first run: it has failed,
\* and the record of the first run holds its files
C13_Witness ==
    /\ pc = "failed"
    /\ error = "FileExistsError"
    /\ run = 2
    /\ \E t \in DOMAIN tree :
          /\ "VM_metadata" \in tree[t]
          /\ Cardinality(tree[t]) >= 2
          /\ \A f \in tree[t] : file_content[<< t, f >>] \in {"metadata", "exact"}
    /\ \A i \in DOMAIN calls : calls[i].op = "VDI.enable_cbt"
    /\ calls # << >>

\* C14: the prior local backup handed to an incremental transfer is a file
\* whose transfer completed and whose digest comparison succeeded: never
\* the partial file of a transfer that was cut, never a file whose digest
\* did not match.
C14_BaseIsCompleteAndVerified ==
    (pc = "transfer" /\ IsSome(latest_backup)) =>
        file_content[Get(latest_backup)[2]] = "exact"

\* positions in calls of the calls named in ops
CallsNamed(ops) == {i \in DOMAIN calls : calls[i].op \in ops}

\* every call named in ops1 comes before every call named in ops2
AllBefore(ops1, ops2) ==
    \A i \in CallsNamed(ops1), j \in CallsNamed(ops2) : i < j

\* the VDIs of the VM's devices that are not empty
NonEmptyVmDisks ==
    {vm_vbds[b].vdi : b \in {c \in DOMAIN vm_vbds : ~vm_vbds[c].empty}}

TransferPhaseOps ==
    TransferOps \cup {"VDI.list_changed_blocks", "Async.VDI.checksum"}

\* C15: a run asks for change tracking on every non-empty disk of the VM
\* and on no empty drive, then creates one VM snapshot, then transfers and
\* verifies the snapshot's disks one at a time (a disk's transfer starts
\* only when the digest of the disk before it has matched), then cleans up;
\* cleanup starts only when every disk has been transferred and verified,
\* and the run is done only after cleanup.
C15_PhasesInOrder ==
    /\ AllBefore({"VDI.enable_cbt"}, {"VM.snapshot"})
    /\ AllBefore({"VM.snapshot"}, TransferPhaseOps)
    /\ AllBefore(TransferPhaseOps, {"VM.destroy"})
    /\ AllBefore({"VM.destroy"}, RetireOps)
    /\ \A i \in CallsNamed({"VDI.enable_cbt"}) : calls[i].arg[1] \in NonEmptyVmDisks
    /\ Cardinality(CallsNamed({"VM.snapshot"})) <= 1
    /\ Cardinality(CallsNamed({"VM.destroy"})) <= 1
    /\ CallsNamed({"VM.snapshot"}) # {} =>
          \A v \in NonEmptyVmDisks : Cardinality(CallsOn({"VDI.enable_cbt"}, v)) = 1
    /\ CallsNamed(TransferPhaseOps \cup {"VM.destroy"} \cup RetireOps) # {} =>
          Cardinality(CallsNamed({"VM.snapshot"})) = 1
    /\ \A k \in DOMAIN RunVdiList :
          \A i \in CallsOn(TransferOps, RunVdiList[k]) :
             \A j \in 1..(k - 1) :
                /\ \E t \in CallsOn(TransferOps, RunVdiList[j]) :
                   \E c \in CallsOn({"Async.VDI.checksum"}, RunVdiList[j]) :
                      t < c /\ c < i
                /\ BackupFileOf(RunVdiList[j]) = "exact"
    /\ \A d \in CallsNamed({"VM.destroy"}) :
          \A k \in DOMAIN RunVdiList :
             /\ \E t \in CallsOn(TransferOps, RunVdiList[k]) :
                \E c \in CallsOn({"Async.VDI.checksum"}, RunVdiList[k]) :
                   t < c /\ c < d
             /\ BackupFileOf(RunVdiList[k]) = "exact"
    /\ pc = "done" =>
          /\ CallsNamed({"VM.destroy"}) # {}
          /\ \A k \in DOMAIN RunVdiList : CallsOn(RetireOps, RunVdiList[k]) # {}

\* a finished run on a VM with a disk and an empty drive: one enable_cbt,
\* one snapshot, one transfer and one checksum, then cleanup
C15_Witness ==
    /\ pc = "done"
    /\ Len(vm_vbds) = 2
    /\ Cardinality(NonEmptyVmDisks) = 1
    /\ Cardinality(CallsNamed({"VDI.enable_cbt"})) = 1
    /\ Cardinality(CallsNamed(TransferOps)) = 1
    /\ Cardinality(CallsNamed({"Async.VDI.checksum"})) = 1
    /\ Cardinality(CallsNamed(RetireOps)) = 1

\* C16: the step in which a run fails during a disk's transfer or
\* verification cleans nothing up: every directory and file that existed
\* stays as it was, the failed disk's partial or mismatching file is in the
\* record directory, and the VM snapshot and its disks are on the server,
\* neither destroyed nor retired.
C16_FailureCleansNothingUp ==
    [][(pc \in {"transfer", "assert_checksums"} /\ pc' = "failed") =>
           /\ \A t \in DOMAIN tree : t \in DOMAIN tree' /\ tree[t] \subseteq tree'[t]
           /\ \A b \in DOMAIN file_content :
                 b # Get(output_file) =>
                    /\ b \in DOMAIN file_content'
                    /\ file_content'[b] = file_content[b]
           /\ Get(output_file)[2] \in tree'[backup_dir]
           /\ Get(output_file) \in DOMAIN file_content'
           /\ file_content'[Get(output_file)] \in {"partial", "wrong"}
           /\ vm_snapshots' = vm_snapshots
           /\ vm_snapshots[vm_snapshot].exists
           /\ vdis' = vdis
           /\ \A k \in DOMAIN snap_vdis : vdis[snap_vdis[k]].status = "live"
           /\ \A i \in DOMAIN calls' :
                 calls'[i].op \notin {"VM.destroy"} \cup RetireOps]_vars

\* the transfer of the second disk was cut: the run has failed, the first
\* disk's verified file and the second's partial file are in the record and
\* the VM snapshot and its two disks are still on the server
C16_Witness ==
    /\ pc = "failed"
    /\ error = "TransportError"
    /\ Len(RunVdiList) = 2
    /\ BackupFileOf(RunVdiList[1]) = "exact"
    /\ BackupFileOf(RunVdiList[2]) = "partial"
    /\ \A m \in RunVmSnapshots : vm_snapshots[m].exists
    /\ \A k \in DOMAIN RunVdiList : vdis[RunVdiList[k]].status = "live"

(***************************************************************************)
(* Properties of the polling loop, checked under LiveSpec.                 *)
(***************************************************************************)
\* C18: the polling loop is left only when the task's status is no longer
\* "pending", and then the result is read; while the task stays pending
\* the run stays in the loop: it reaches neither cleanup nor the end, makes
\* no call and reports no failure, whatever time passes. When the task
\* leaves "pending", the run does go on to read the result.
C18_PollingReturnsIffTaskLeavesPending ==
    /\ [][(pc = "wait_for_task" /\ pc' # "wait_for_task") =>
             /\ task_status # Some("pending")
             /\ pc' = "assert_checksums"]_vars
    /\ [][(pc = "wait_for_task" /\ task_status' = Some("pending")) =>
             /\ pc' = "wait_for_task"
             /\ error' = "none"
             /\ calls' = calls
             /\ vm_snapshots' = vm_snapshots]_vars
    /\ (pc = "wait_for_task") ~> (pc = "assert_checksums")

\* the run is in the loop and the server has not finished the task
C18_Witness ==
    /\ pc = "wait_for_task"
    /\ task_status = Some("pending")
    /\ calls[Len(calls)].op = "Async.VDI.checksum"

(***************************************************************************)
(* Properties of the base of an incremental transfer, checked under Spec.  *)
(***************************************************************************)
\* C20: in a run, the snapshot the resolver returns as the base is never
\* the snapshot disk being backed up. That disk is among the snapshots of
\* its parent and none of them is newer, but it has no local file when the
\* resolver runs, so the base is a snapshot created before it, and
\* VDI.list_changed_blocks is never asked for the changes between a
\* snapshot and itself.
C20_BaseIsAnEarlierSnapshot ==
    /\ (pc = "transfer" /\ cbt_enabled) =>
          /\ vdi \in VdiGetSnapshots(vdis[vdi].snapshot_of)
          /\ \A s \in VdiGetSnapshots(vdis[vdi].snapshot_of) :
                SnapshotTimestamp(s) <= SnapshotTimestamp(vdi)
          /\ BackupFileOf(vdi) = "absent"
    /\ (pc = "transfer" /\ IsSome(latest_backup)) =>
          /\ Get(latest_backup)[1] # vdi
          /\ Get(latest_backup)[1] < vdi
          /\ vdis[Get(latest_backup)[1]].snapshot_of = vdis[vdi].snapshot_of
          /\ SnapshotTimestamp(Get(latest_backup)[1]) <= SnapshotTimestamp(vdi)
          /\ Get(latest_backup)[2][1] # backup_dir
    /\ \A i \in CallsNamed({"VDI.list_changed_blocks"}) :
          calls[i].arg[1] # calls[i].arg[2]

\* an incremental transfer is about to start from the file of the snapshot
\* of an earlier run
C20_Witness ==
    /\ pc = "transfer"
    /\ IsSome(latest_backup)
    /\ Get(latest_backup)[1] < vdi
    /\ SnapshotTimestamp(Get(latest_backup)[1]) < SnapshotTimestamp(vdi)
    /\ file_content[Get(latest_backup)[2]] = "exact"

(***************************************************************************)
(* Properties of two invocations at once, checked under ConcurrentSpec.    *)
(***************************************************************************)
\* the snapshots of v's parent disk that have a file in the tree, complete
\* or not
SnapshotsWithAnyFile(v) ==
    {s \in VdiGetSnapshots(vdis[v].snapshot_of) :
        \E d \in DOMAIN tree : vdis[s].uuid \in tree[d]}

\* process q is writing the file b: its transfer has created the file and
\* has not completed
IsWriting(q, b) ==
    /\ procs[q].pc = "transferring"
    /\ procs[q].output_file = Some(b)

\* C19: nothing isolates two invocations. When the resolver of one runs
\* with change tracking on, it returns a newest snapshot of the parent disk
\* that has a file in the tree, whether or not the file is complete or
\* verified, and None only when no snapshot has a file: a file the other
\* invocation is still writing is taken like any other (the interleaving
\* C19_Witness describes is reached).
C19_ResolverTakesFilesBeingWritten ==
    [][\A p \in Procs :
          (/\ procs[p].pc = "vm_backup"
           /\ procs'[p].pc = "transfer"
           /\ procs'[p].cbt_enabled) =>
              /\ IsNone(procs'[p].latest_backup)
                    <=> SnapshotsWithAnyFile(procs'[p].vdi) = {}
              /\ IsSome(procs'[p].latest_backup) =>
                    /\ Get(procs'[p].latest_backup)[1]
                          \in SnapshotsWithAnyFile(procs'[p].vdi)
                    /\ \A s \in SnapshotsWithAnyFile(procs'[p].vdi) :
                          SnapshotTimestamp(s)
                             <= SnapshotTimestamp(Get(procs'[p].latest_backup)[1])
                    /\ Get(procs'[p].latest_backup)[2] \in DOMAIN file_content]_vars

\* one invocation is about to make an incremental transfer whose base is
\* the file the other invocation is still writing
C19_Witness ==
    \E p, q \in Procs :
        /\ p # q
        /\ procs[p].pc = "transfer"
        /\ IsSome(procs[p].latest_backup)
        /\ IsWriting(q, Get(procs[p].latest_backup)[2])
        /\ Get(procs[p].latest_backup)[1] = procs[q].vdi
        /\ file_content[Get(procs[p].latest_backup)[2]] = "partial"

=============================================================================
